---- MODULE Spec2Model ----
(***************************************************************************)
(* A model of the engine of HuntOverlay.py: the point cache built from the *)
(* raw map data, the hover hit test, the per-category hidden sets, the     *)
(* edge-triggered key handling of Overlay._tick, the panel callbacks and   *)
(* the write-through configuration.                                        *)
(*                                                                         *)
(* Representation.                                                         *)
(*  - JSON values are tagged records [t |-> tag, v |-> value]; a JSON      *)
(*    number is the exact rational <<n, d>>.                               *)
(*  - Map coordinates are fixed-point integers in units of 1/CoordDen grid *)
(*    cells, so that rounding in _hidden_key is a real conversion.         *)
(*  - u and v of a cached point are numerators over GridMax * CoordDen.    *)
(*  - A stable id (the string built by _hidden_key) is the sequence of its *)
(*    character codes, so that sorted() in _save is the string order.      *)
(*  - Arithmetic is exact (rationals), where the program uses doubles.     *)
(***************************************************************************)
EXTENDS Integers, Sequences, FiniteSets, TLC

(***************************************************************************)
(* Program constants                                                       *)
(***************************************************************************)
MAPS == <<"Stillwater Bayou", "DeSalle", "Lawson Delta", "Mammon's Gulch">>

MapNames == {MAPS[i] : i \in 1..Len(MAPS)}

\* The order of the categories with possible_xp scanned last.
TypeOrderXpLast ==
  <<"spawns", "armories", "towers", "big_towers", "workbenches", "wild_targets",
    "beetles", "easter_eggs", "melee_weapons", "cash_registers", "possible_xp">>

type_order ==
  <<"possible_xp", "spawns", "armories", "towers", "big_towers", "workbenches",
    "wild_targets", "beetles", "easter_eggs", "melee_weapons", "cash_registers">>

Categories == {type_order[i] : i \in 1..Len(type_order)}

\* The three source categories in another order.
SourcesReordered == <<"towers", "armories", "big_towers">>

\* The three source categories of possible_xp, in the order of the union.
union_sources == <<"towers", "big_towers", "armories">>

\* 4095.0 in rotate90cw_norm: the largest coordinate of the 4096 x 4096 grid.
GridMax == 4095

hover_radius == 10

\* Fixed-point resolution of a map coordinate: q stands for q / CoordDen.
CoordDen == 4

\* The primary screen's geometry, as screenWH() reports it.  On this display
\* the default rect ratio gives a 4095 x 4095 rectangle: one pixel per cell.
ScreenW == 10665

ScreenH == 5993

(***************************************************************************)
(* JSON values                                                             *)
(***************************************************************************)
JNull == [t |-> "null"]

JBool(b) == [t |-> "bool", v |-> b]

JNum(n, d) == [t |-> "num", v |-> <<n, d>>]

\* A string that the program only compares with other strings.
JStr(s) == [t |-> "str", v |-> s]

\* A string kept as its character codes (a stable id).
JText(codes) == [t |-> "text", v |-> codes]

JList(seq) == [t |-> "list", v |-> seq]

JDict(f) == [t |-> "dict", v |-> f]

EmptyDict == JDict(<<>>)

IsDict(j) == j.t = "dict"

IsList(j) == j.t = "list"

\* key in dict
Has(j, k) == IsDict(j) /\ k \in DOMAIN j.v

\* dict.get(k, dflt)
Get(j, k, dflt) == IF k \in DOMAIN j.v THEN j.v[k] ELSE dflt

\* Python's truth value of a JSON value: `not c` is Falsy(c).
Falsy(j) ==
  CASE j.t = "null" -> TRUE
    [] j.t = "bool" -> ~j.v
    [] j.t = "num"  -> j.v[1] = 0
    [] j.t = "str"  -> j.v = ""
    [] j.t = "text" -> j.v = <<>>
    [] j.t = "list" -> j.v = <<>>
    [] j.t = "dict" -> DOMAIN j.v = {}

\* len() is defined for strings, lists and dicts; it raises TypeError otherwise.
HasLen(j) == j.t \in {"str", "text", "list", "dict"}

\* len(c) of a value that has one.  The strings of the model's data are the
\* names below, none shorter than two characters.
PyLen(j) ==
  CASE j.t = "list" -> Len(j.v)
    [] j.t = "text" -> Len(j.v)
    [] j.t = "dict" -> Cardinality(DOMAIN j.v)
    [] j.t = "str"  -> IF j.v = "" THEN 0 ELSE 2

\* float(e) succeeds on a number and on a boolean; on the (non-numeric) strings
\* of the model's data, on null, lists and dicts it raises.
FloatOk(j) == j.t \in {"num", "bool"}

\* float(e) as a fixed-point coordinate; the data's numbers have a denominator
\* that divides CoordDen.
ToFixed(j) ==
  IF j.t = "bool" THEN (IF j.v THEN CoordDen ELSE 0)
  ELSE (j.v[1] * CoordDen) \div j.v[2]

(***************************************************************************)
(* CoordinateTransform                                                     *)
(***************************************************************************)
\* The denominator of u and v.
UnitDen == GridMax * CoordDen

\* rotate90cw_norm without its four clamping statements.
Unclamped(n) == n

Clamp01(n) == IF n < 0 THEN 0 ELSE IF n > UnitDen THEN UnitDen ELSE n

\* rotate90cw_norm(x, y): xr = y, yr = 4095 - x, both over 4095 and clamped.
rotate90cw_norm(x, y) == <<Clamp01(y), Clamp01(UnitDen - x)>>

(***************************************************************************)
(* DataFormatAdapter                                                       *)
(***************************************************************************)
\* detect_data_format with the test for "n" before the test for "i".
DetectNamedFirst(game_data) ==
  IF IsList(game_data) /\ game_data.v # <<>>
  THEN IF IsDict(game_data.v[1]) /\ Has(game_data.v[1], "n") THEN "named"
       ELSE IF /\ IsDict(game_data.v[1]) /\ Has(game_data.v[1], "i")
               /\ (Has(game_data.v[1], "r") \/ Has(game_data.v[1], "a"))
       THEN "indexed_r" ELSE "unknown"
  ELSE "unknown"

detect_data_format(game_data) ==
  IF IsList(game_data) /\ game_data.v # <<>>
  THEN LET a == game_data.v[1]
       IN  IF IsDict(a) /\ Has(a, "i") /\ (Has(a, "r") \/ Has(a, "a"))
           THEN "indexed_r"
           ELSE IF IsDict(a) /\ Has(a, "n") THEN "named" ELSE "unknown"
  ELSE "unknown"

\* MAPS.index(map_name), zero-based
MapIndex(map_name) == (CHOOSE i \in 1..Len(MAPS) : MAPS[i] = map_name) - 1

\* The first block of the list that matches, or JNull (None).
get_map_block(game_data, fmt, map_name) ==
  LET want == IF fmt = "named" THEN JStr(map_name) ELSE JNum(MapIndex(map_name), 1)
      field == IF fmt = "named" THEN "n" ELSE "i"
      hits == {i \in 1..Len(game_data.v) :
                 /\ IsDict(game_data.v[i])
                 /\ Get(game_data.v[i], field, JNull) = want}
  IN  IF fmt \notin {"named", "indexed_r"} \/ hits = {} THEN JNull
      ELSE game_data.v[CHOOSE i \in hits : \A j \in hits : i <= j]

get_category_list(map_block, fmt, category) ==
  IF ~IsDict(map_block) THEN <<>>
  ELSE IF fmt = "named"
  THEN LET v == Get(map_block, category, JList(<<>>))
       IN  IF IsList(v) THEN v.v ELSE <<>>
  ELSE IF fmt = "indexed_r"
  THEN LET r == Get(map_block, "r", EmptyDict)
       IN  IF IsDict(r)
           THEN LET v == Get(r, category, JList(<<>>))
                IN  IF IsList(v) THEN v.v ELSE <<>>
           ELSE <<>>
  ELSE <<>>

(***************************************************************************)
(* PointCache                                                              *)
(***************************************************************************)
\* len(c) raises TypeError (outside the try) when c is truthy and has no len.
ItemRaises(it) ==
  /\ IsDict(it)
  /\ LET c == Get(it, "c", JNull) IN ~Falsy(c) /\ ~HasLen(c)

\* The item passes every `continue` of build_for_category and the conversion
\* float(c[0]), float(c[1]) succeeds (only a list can be indexed by 0 and 1 with
\* a convertible result).
ItemOk(it) ==
  /\ IsDict(it)
  /\ LET c == Get(it, "c", JNull)
     IN  /\ ~Falsy(c)
         /\ HasLen(c)
         /\ PyLen(c) >= 2
         /\ IsList(c)
         /\ FloatOk(c.v[1])
         /\ FloatOk(c.v[2])

\* The cached point of an item: {"u", "v", "x", "y", "raw", "src"}.
MakePoint(it, cat) ==
  LET c  == Get(it, "c", JNull)
      x  == ToFixed(c.v[1])
      y  == ToFixed(c.v[2])
      uv == rotate90cw_norm(x, y)
  IN  [u |-> uv[1], v |-> uv[2], x |-> x, y |-> y, raw |-> it, src |-> cat]

RECURSIVE PointsOf(_, _)
PointsOf(items, cat) ==
  IF items = <<>> THEN <<>>
  ELSE (IF ItemOk(Head(items)) THEN <<MakePoint(Head(items), cat)>> ELSE <<>>)
       \o PointsOf(Tail(items), cat)

\* build_for_category(cat) of the block, when no item raises.
build_for_category(block, fmt, cat) ==
  PointsOf(get_category_list(block, fmt, cat), cat)

RECURSIVE Concat(_)
Concat(seqs) == IF seqs = <<>> THEN <<>> ELSE Head(seqs) \o Concat(Tail(seqs))

_build_points_for_map(game_data, fmt, map_name) ==
  LET block == get_map_block(game_data, fmt, map_name)
      built == [k \in Categories |->
                  IF k = "possible_xp" \/ Falsy(block) THEN <<>>
                  ELSE build_for_category(block, fmt, k)]
      union == Concat([i \in 1..Len(union_sources) |-> built[union_sources[i]]])
  IN  [k \in Categories |-> IF k = "possible_xp" THEN union ELSE built[k]]

\* Some item of some category of some map makes the build raise.
BuildRaises(game_data, fmt) ==
  \E m \in MapNames, k \in Categories \ {"possible_xp"} :
     LET items == get_category_list(get_map_block(game_data, fmt, m), fmt, k)
     IN  \E i \in 1..Len(items) : ItemRaises(items[i])

_rebuild_all_caches(game_data, fmt) ==
  [m \in MapNames |-> _build_points_for_map(game_data, fmt, m)]

(***************************************************************************)
(* IdentityResolver                                                        *)
(***************************************************************************)
\* int(round(float(x))): Python rounds a tie to the even neighbour.
RoundHalfEven(q) ==
  LET fl == q \div CoordDen
      r  == q % CoordDen
  IN  IF 2 * r < CoordDen THEN fl
      ELSE IF 2 * r > CoordDen THEN fl + 1
      ELSE IF fl % 2 = 0 THEN fl ELSE fl + 1

RECURSIVE Digits(_)
Digits(n) == IF n < 10 THEN <<48 + n>> ELSE Digits(n \div 10) \o <<48 + (n % 10)>>

\* The decimal text of an integer, as an f-string formats it.
IntText(n) == IF n < 0 THEN <<45>> \o Digits(-n) ELSE Digits(n)

\* The character codes of each category name.
CategoryText ==
  [possible_xp |-> <<112, 111, 115, 115, 105, 98, 108, 101, 95, 120, 112>>,
   spawns |-> <<115, 112, 97, 119, 110, 115>>,
   armories |-> <<97, 114, 109, 111, 114, 105, 101, 115>>,
   towers |-> <<116, 111, 119, 101, 114, 115>>,
   big_towers |-> <<98, 105, 103, 95, 116, 111, 119, 101, 114, 115>>,
   workbenches |-> <<119, 111, 114, 107, 98, 101, 110, 99, 104, 101, 115>>,
   wild_targets |-> <<119, 105, 108, 100, 95, 116, 97, 114, 103, 101, 116, 115>>,
   beetles |-> <<98, 101, 101, 116, 108, 101, 115>>,
   easter_eggs |-> <<101, 97, 115, 116, 101, 114, 95, 101, 103, 103, 115>>,
   melee_weapons |-> <<109, 101, 108, 101, 101, 95, 119, 101, 97, 112, 111, 110, 115>>,
   cash_registers |-> <<99, 97, 115, 104, 95, 114, 101, 103, 105, 115, 116, 101, 114, 115>>]

\* ":" between the parts of an id
Colon == <<58>>

\* An id of truncated coordinates, the same in every category.
KeyTruncated(tkey, pt) ==
  IntText(pt.x \div CoordDen) \o Colon \o IntText(pt.y \div CoordDen)

_hidden_key(tkey, pt) ==
  LET xi == RoundHalfEven(pt.x)
      yi == RoundHalfEven(pt.y)
  IN  IF tkey = "possible_xp"
      THEN CategoryText[pt.src] \o Colon \o IntText(xi) \o Colon \o IntText(yi)
      ELSE IntText(xi) \o Colon \o IntText(yi)

(***************************************************************************)
(* The raw map data of the model (data.json, "named" format)               *)
(***************************************************************************)
\* The coordinate n + f / CoordDen as a JSON number.
Coord(n, f) == JNum(n * CoordDen + f, CoordDen)

Item(x, y) == JDict([c |-> JList(<<x, y>>)])

\* Stillwater Bayou.  Around (100, 200): one tower and, a fraction of a cell
\* away, a spawn whose rounded coordinates are the tower's.  Around
\* (1000, 2000): towers, an armory, a watch tower and a workbench at squared
\* pixel distances 9, 9, 16, 16, 100 and 121 from the cell (1000, 2000).
Block1 ==
  JDict([n |-> JStr(MAPS[1]),
         towers |-> JList(<<Item(Coord(100, 0), Coord(200, 0)),
                            Item(Coord(1000, 0), Coord(1997, 0)),
                            Item(Coord(1000, 0), Coord(2003, 0)),
                            Item(Coord(996, 0), Coord(2000, 0))>>),
         armories |-> JList(<<Item(Coord(1004, 0), Coord(2000, 0))>>),
         big_towers |-> JList(<<Item(Coord(1000, 0), Coord(2010, 0))>>),
         workbenches |-> JList(<<Item(Coord(1000, 0), Coord(2011, 0))>>),
         spawns |-> JList(<<Item(Coord(99, CoordDen - 1), Coord(200, 1))>>)])

\* DeSalle: a tower at the coordinates of Stillwater Bayou's first tower, and
\* an armory next to it.
Block2 ==
  JDict([n |-> JStr(MAPS[2]),
         towers |-> JList(<<Item(Coord(100, 0), Coord(200, 0))>>),
         armories |-> JList(<<Item(Coord(100, 0), Coord(203, 0))>>)])

\* Mammon's Gulch: items the build skips, around one it keeps.
Block4 ==
  JDict([n |-> JStr(MAPS[4]),
         towers |-> JList(<<JNum(7, 1),
                            JDict([label |-> JStr("no coordinates")]),
                            Item(Coord(100, 0), Coord(200, 0)),
                            JDict([c |-> JList(<<Coord(5, 0)>>)]),
                            JDict([c |-> JList(<<JStr("north"), Coord(5, 0)>>)])>>),
         armories |-> JStr("none")])

\* Lawson Delta has no block.
GameData == JList(<<Block1, Block2, Block4>>)

(***************************************************************************)
(* ConfigStore: _load_config and the part of __init__ that reads it        *)
(***************************************************************************)
default_rect_ratio ==
  JDict([rx |-> JNum(790, 2560), ry |-> JNum(210, 1440),
         rw |-> JNum(983, 2560), rh |-> JNum(984, 1440)])

DefaultProfile == JDict([rect_ratio |-> default_rect_ratio])

\* The colour list q2rgb() returns.
Rgb(r, g, b) == JList(<<JNum(r, 1), JNum(g, 1), JNum(b, 1)>>)

\* q2rgb(type_specs[k]["default_fill"]) with a poiData.json that has no record
\* for the category: "#FFD34D" for possible_xp, the fallback "#B4B4B4" otherwise.
DefaultFill(k) == IF k = "possible_xp" THEN Rgb(255, 211, 77) ELSE Rgb(180, 180, 180)

\* No config.json, and one that json.load cannot parse.
NoFile == [t |-> "absent"]

Unparsable == [t |-> "garbage"]

\* a.update(b) on the fields of two dicts
Update(a, b) ==
  [k \in DOMAIN a \cup DOMAIN b |-> IF k \in DOMAIN b THEN b[k] ELSE a[k]]

\* d[k] = x
Put(j, k, x) == JDict(Update(j.v, [i \in {k} |-> x]))

BaseSettings ==
  [enable_num_switch |-> JBool(TRUE),
   selected_map |-> JStr(MAPS[1]),
   visible_overlay |-> JBool(FALSE),
   master_on |-> JBool(TRUE),
   global_scale |-> JNum(1, 1),
   types |-> EmptyDict,
   hidden |-> EmptyDict]

\* base as _load_config builds it, before anything of the file is merged in
DefaultsOnly(file) ==
  [profiles |-> [m \in MapNames |-> DefaultProfile], settings |-> BaseSettings]

\* base after the two update() calls of _load_config
MergedBase(file) ==
  LET d  == IF file.t \in {"absent", "garbage"} THEN EmptyDict ELSE file
      p0 == [m \in MapNames |-> DefaultProfile]
      p1 == IF IsDict(d) /\ IsDict(Get(d, "profiles", JNull))
            THEN Update(p0, d.v["profiles"].v) ELSE p0
      s1 == IF IsDict(d) /\ IsDict(Get(d, "settings", JNull))
            THEN Update(BaseSettings, d.v["settings"].v) ELSE BaseSettings
  IN  [profiles |-> p1, settings |-> s1]

\* base["profiles"][m].get("rect_ratio") raises on a profile that is no dict.
LoadRaises(file) ==
  \E m \in MapNames : ~IsDict(MergedBase(file).profiles[m])

_load_config(file) ==
  LET b == MergedBase(file)
      fix(p) == IF IsDict(Get(p, "rect_ratio", JNull)) THEN p
                ELSE Put(p, "rect_ratio", default_rect_ratio)
  IN  JDict([profiles |-> JDict([k \in DOMAIN b.profiles |->
                                   IF k \in MapNames THEN fix(b.profiles[k])
                                   ELSE b.profiles[k]]),
             settings |-> JDict(b.settings)])

Settings(data) == data.v["settings"]

Profiles(data) == data.v["profiles"]

\* bool(x)
Truthy(j) == ~Falsy(j)

\* The float NaN, which json.load reads from the literal NaN: the rational 0/0.
NaN == <<0, 0>>

\* a < b of two floats <<n, d>>, d > 0 or NaN: false when either is NaN.
FloatLess(a, b) == a # NaN /\ b # NaN /\ a[1] * b[2] < b[1] * a[2]

\* global_scale: a rational <<n, d>>, after the two `if` of __init__ and of
\* _scale_changed.
ClampScale(q) ==
  IF FloatLess(q, <<10, 100>>) THEN <<10, 100>>
  ELSE IF FloatLess(<<500, 100>>, q) THEN <<500, 100>>
  ELSE q

\* float(x) of a JSON value that converts
ToRational(j) == IF j.t = "bool" THEN (IF j.v THEN <<1, 1>> ELSE <<0, 1>>) ELSE j.v

\* self.types after the loop of __init__ over type_order (st["types"] a dict of
\* dicts): the missing categories and fields are filled in.
InitTypes(t) ==
  JDict([k \in DOMAIN t.v \cup Categories |->
           IF k \notin Categories THEN t.v[k]
           ELSE IF k \notin DOMAIN t.v
           THEN JDict([enabled |-> JBool(TRUE), color |-> DefaultFill(k)])
           ELSE JDict(Update([enabled |-> JBool(TRUE), color |-> DefaultFill(k)],
                             t.v[k].v))])

\* The loop raises TypeError when st["types"] is no dict or an entry of a
\* category is no dict (`in` or item assignment on a number, list, string, None).
TypesRaise(t) ==
  \/ ~IsDict(t)
  \/ \E k \in Categories : k \in DOMAIN t.v /\ ~IsDict(t.v[k])

\* self.hidden_sets: per category the set of the listed ids.
InitHidden(h) ==
  [k \in Categories |->
     IF IsDict(h) /\ IsList(Get(h, k, JNull))
     THEN {h.v[k].v[i] : i \in 1..Len(h.v[k].v)}
     ELSE {}]

\* set(list) raises TypeError on an unhashable element.
HiddenRaise(h) ==
  /\ IsDict(h)
  /\ \E k \in Categories :
       /\ IsList(Get(h, k, JNull))
       /\ \E i \in 1..Len(h.v[k].v) : h.v[k].v[i].t \in {"list", "dict"}

\* int(): truncation toward zero of the rational n / d, d > 0
Trunc(n, d) == IF n >= 0 THEN n \div d ELSE -((-n) \div d)

Max(a, b) == IF a >= b THEN a ELSE b

\* rr[k] * W is a number for a number or a boolean; int() of anything else the
\* product can be raises (as does a missing key).
RatioOk(rr) ==
  \A k \in {"rx", "ry", "rw", "rh"} : Has(rr, k) /\ FloatOk(rr.v[k])

ApplyRectRaises(data, prof) ==
  LET rr == Get(Profiles(data).v[prof], "rect_ratio", JNull)
  IN  IsDict(rr) /\ ~RatioOk(rr)

NoRect == [none |-> TRUE]

\* _apply_rect: the rectangle in pixels, QRect(left, top, width, height)
_apply_rect(data, prof) ==
  LET rr == Get(Profiles(data).v[prof], "rect_ratio", JNull)
      f(k) == ToRational(rr.v[k])
  IN  IF ~IsDict(rr) THEN NoRect
      ELSE [left   |-> Trunc(f("rx")[1] * ScreenW, f("rx")[2]),
            top    |-> Trunc(f("ry")[1] * ScreenH, f("ry")[2]),
            width  |-> Max(1, Trunc(f("rw")[1] * ScreenW, f("rw")[2])),
            height |-> Max(1, Trunc(f("rh")[1] * ScreenH, f("rh")[2]))]

NoHover == [none |-> TRUE]

\* Overlay.__init__ raises: the error reaches __main__, which exits.
StartupRaises(file, game_data) ==
  LET fmt == detect_data_format(game_data)
      st  == Settings(_load_config(file))
      sel == Get(st, "selected_map", JNull)
      prof == IF sel.t = "str" /\ sel.v \in MapNames THEN sel.v ELSE MAPS[1]
  IN  \/ fmt = "unknown"
      \/ LoadRaises(file)
      \/ ~FloatOk(Get(st, "global_scale", JNum(1, 1)))
      \/ TypesRaise(Get(st, "types", EmptyDict))
      \/ HiddenRaise(Get(st, "hidden", EmptyDict))
      \/ ApplyRectRaises(_load_config(file), prof)
      \/ BuildRaises(game_data, fmt)

\* self.hidden after its loop over type_order: a category that is missing or
\* no list gets an empty list, the other lists are kept as they are.
InitHiddenLists(h) ==
  JDict([k \in DOMAIN h.v \cup Categories |->
           IF k \in Categories /\ ~IsList(Get(h, k, JNull)) THEN JList(<<>>)
           ELSE h.v[k]])

\* self.data at the end of __init__.  self.types is the very dict that
\* settings["types"] holds, and self.hidden the one settings["hidden"] holds
\* when that is a dict, so the entries __init__ fills in appear in self.data.
FilledTypes(st) == Put(st, "types", InitTypes(st.v["types"]))

FilledHidden(st) ==
  IF IsDict(st.v["hidden"])
  THEN Put(st, "hidden", InitHiddenLists(st.v["hidden"]))
  ELSE st

Filled(loaded) == Put(loaded, "settings", FilledHidden(FilledTypes(Settings(loaded))))

LoadedData(file) == Filled(_load_config(file))

\* `st.get("selected_map", MAPS[0]) if st.get("selected_map") in MAPS else MAPS[0]`
SelectedMap(st) ==
  IF Get(st, "selected_map", JNull).t = "str" /\ Get(st, "selected_map", JNull).v \in MapNames
  THEN st.v["selected_map"].v
  ELSE MAPS[1]

\* The Overlay object __init__ builds from st, the settings _load_config
\* returned, and data, self.data with the categories filled in.
Constructed(st, data, file, game_data) ==
      [num_sw       |-> Truthy(Get(st, "enable_num_switch", JBool(TRUE))),
       prof         |-> SelectedMap(st),
       visible      |-> Truthy(Get(st, "visible_overlay", JBool(FALSE))),
       master       |-> Truthy(Get(st, "master_on", JBool(TRUE))),
       global_scale |-> ClampScale(ToRational(Get(st, "global_scale", JNum(1, 1)))),
       types        |-> InitTypes(Get(st, "types", EmptyDict)),
       hidden_sets  |-> InitHidden(Get(st, "hidden", EmptyDict)),
       rect         |-> _apply_rect(data, SelectedMap(st)),
       pbt          |-> FALSE,
       pH           |-> FALSE,
       pT           |-> FALSE,
       pHide        |-> FALSE,
       hover        |-> NoHover,
       cache        |-> _rebuild_all_caches(game_data, detect_data_format(game_data)),
       data         |-> data,
       disk         |-> file,
       fs           |-> "ok"]

\* The Overlay object at the end of __init__, when nothing raised.
Startup(file, game_data) ==
  Constructed(Settings(_load_config(file)), LoadedData(file), file, game_data)

(***************************************************************************)
(* State: the fields of the Overlay object, the configuration file, and a  *)
(* record of what the last operation polled and did.                       *)
(***************************************************************************)
VARIABLES
  num_sw,        \* self.num_sw
  prof,          \* self.prof: the selected map
  visible,       \* self.visible
  master,        \* self.master
  global_scale,  \* self.global_scale, a rational <<n, d>>
  types,         \* self.types: category -> {"enabled", "color"}
  hidden_sets,   \* self.hidden_sets: category -> set of ids
  rect,          \* self.rect
  pbt,           \* previous sample of the backtick key
  pH,            \* previous sample of H
  pT,            \* previous sample of Tab
  pHide,         \* previous sample of the chord
  hover,         \* self.hover
  cache,         \* self.cache: map -> category -> points
  data,          \* self.data: the configuration dict
  disk,          \* the content of config.json
  fs,            \* what a write of config.json meets: "ok", "denied", "torn"
  ev             \* the last operation: what it polled, called and saved

vars ==
  <<num_sw, prof, visible, master, global_scale, types, hidden_sets, rect,
    pbt, pH, pT, pHide, hover, cache, data, disk, fs, ev>>

\* The Overlay object (with the file and the record of the last operation) as
\* one record: the operations below are functions from such a record to the
\* next one.
Self ==
  [num_sw |-> num_sw, prof |-> prof, visible |-> visible, master |-> master,
   global_scale |-> global_scale, types |-> types, hidden_sets |-> hidden_sets,
   rect |-> rect, pbt |-> pbt, pH |-> pH, pT |-> pT, pHide |-> pHide,
   hover |-> hover, cache |-> cache, data |-> data, disk |-> disk, fs |-> fs,
   ev |-> ev]

Becomes(w) ==
  /\ num_sw' = w.num_sw
  /\ prof' = w.prof
  /\ visible' = w.visible
  /\ master' = w.master
  /\ global_scale' = w.global_scale
  /\ types' = w.types
  /\ hidden_sets' = w.hidden_sets
  /\ rect' = w.rect
  /\ pbt' = w.pbt
  /\ pH' = w.pH
  /\ pT' = w.pT
  /\ pHide' = w.pHide
  /\ hover' = w.hover
  /\ cache' = w.cache
  /\ data' = w.data
  /\ disk' = w.disk
  /\ fs' = w.fs
  /\ ev' = w.ev

\* What the last operation did.  op: its name; fired: the bindings that fired
\* and the calls made; saves: how many times it called _save; hid: the hover
\* result _hide_hovered hid; polled: the key states of the last tick; was: the
\* master and visible it started from; ptr: the pointer position the last scan
\* of _update_hover read;
\* holdEmpty: the chord is held since a tick
\* in which it was pressed with no hover result; raised: an exception left
\* the operation.
NoKeysPolled ==
  [bt |-> FALSE, h |-> FALSE, tab |-> FALSE, chord |-> FALSE, nums |-> {}]

NoPointer == [x |-> 0, y |-> 0]

FirstEv ==
  [op |-> "init", fired |-> {}, saves |-> 0, hid |-> NoHover,
   polled |-> NoKeysPolled, ptr |-> NoPointer,
   was |-> [master |-> TRUE, visible |-> FALSE], holdEmpty |-> FALSE,
   raised |-> FALSE]

\* The record at the start of operation `name`.
Begin(w, name) ==
  [w EXCEPT !.ev = [op |-> name, fired |-> {}, saves |-> 0, hid |-> NoHover,
                    polled |-> w.ev.polled, ptr |-> w.ev.ptr,
                    was |-> [master |-> w.master, visible |-> w.visible],
                    holdEmpty |-> w.ev.holdEmpty, raised |-> FALSE]]

Fired(w, what) == [w EXCEPT !.ev.fired = @ \cup {what}]

\* An exception that passes through every statement: nothing after the raise
\* runs.
RaisedIgnored(w) == FALSE

\* An exception is on its way out of the operation: the statements that follow
\* the raising call do not run.
Raised(w) == w.ev.raised

Raise(w) == [w EXCEPT !.ev.raised = TRUE]

(***************************************************************************)
(* _save                                                                   *)
(***************************************************************************)
\* String order of two ids (character codes): a < b
RECURSIVE LexLess(_, _)
LexLess(a, b) ==
  IF b = <<>> THEN FALSE
  ELSE IF a = <<>> THEN TRUE
  ELSE IF Head(a) # Head(b) THEN Head(a) < Head(b)
  ELSE LexLess(Tail(a), Tail(b))

\* The ids of a set listed in descending order.
RECURSIVE Descending(_)
Descending(ids) ==
  IF ids = {} THEN <<>>
  ELSE LET m == CHOOSE x \in ids : \A y \in ids \ {x} : LexLess(y.v, x.v)
       IN  <<m>> \o Descending(ids \ {m})

\* sorted(list(ids)) of a set of ids
RECURSIVE Sorted(_)
Sorted(ids) ==
  IF ids = {} THEN <<>>
  ELSE LET m == CHOOSE x \in ids : \A y \in ids \ {x} : LexLess(x.v, y.v)
       IN  <<m>> \o Sorted(ids \ {m})

\* The six fields _save assigns before it sorts the hidden sets.
SavedScalars(w) ==
  JDict(Update(Settings(w.data).v,
    [enable_num_switch |-> JBool(w.num_sw),
     selected_map |-> JStr(w.prof),
     visible_overlay |-> JBool(w.visible),
     master_on |-> JBool(w.master),
     global_scale |-> JNum(w.global_scale[1], w.global_scale[2]),
     types |-> w.types]))

\* The settings dict as _save leaves it: the seven fields are overwritten, any
\* other field of the file is kept.
SavedSettings(w) ==
  Put(SavedScalars(w), "hidden",
      JDict([k \in Categories |-> JList(Sorted(w.hidden_sets[k]))]))

\* The classes of values `<` compares: numbers with booleans, strings, None.
OrderClass(j) ==
  IF j.t \in {"num", "bool"} THEN "number"
  ELSE IF j.t \in {"str", "text"} THEN "string"
  ELSE j.t

\* sorted() raises TypeError on a set that holds ids of two classes.
SortRaises(sets) ==
  \E c \in Categories : \E a, b \in sets[c] : OrderClass(a) # OrderClass(b)

\* A save_json that lets the error of a failed write out.
WriteErrorEscapes(f) == f # "ok"

\* save_json raises: never, its `except: pass` takes every error of the write.
SaveJsonRaises(f) == FALSE

\* config.json after save_json(CONFIG_PATH, obj): written; left as it was when
\* open() fails; cut short when the write fails after open() has truncated it.
save_json(f, old, obj) ==
  IF f = "ok" THEN obj
  ELSE IF f = "denied" THEN old
  ELSE Unparsable

\* _save.  The comprehension with sorted() is outside save_json's try: when it
\* raises, the six fields before it are assigned and nothing is written.
\* self.data["settings"] = {...}; save_json(CONFIG_FILE, self.data)
Written(w, d) ==
  [w EXCEPT !.data = d, !.disk = save_json(w.fs, w.disk, d), !.ev.saves = @ + 1]

\* What the caller of save_json sees of a write that failed.
Returned(w) == IF SaveJsonRaises(w.fs) THEN Raise(w) ELSE w

_save(w) ==
  IF SortRaises(w.hidden_sets)
  THEN Raise([w EXCEPT !.data = Put(w.data, "settings", SavedScalars(w))])
  ELSE Returned(Written(w, Put(w.data, "settings", SavedSettings(w))))

(***************************************************************************)
(* HiddenStateStore and HoverHitTester                                     *)
(***************************************************************************)
\* A lookup that reports no point hidden.
HiddenNowhere(w, tkey, pt) == FALSE

_is_hidden(w, tkey, pt) == JText(_hidden_key(tkey, pt)) \in w.hidden_sets[tkey]

\* A scan that takes every category for enabled.
EnabledAlways(w, tkey) == TRUE

\* self.types.get(tkey, {}).get("enabled", True)
Enabled(w, tkey) == Truthy(Get(Get(w.types, tkey, EmptyDict), "enabled", JBool(TRUE)))

\* Hiding in the category the point was built for.
HideInSource(h) == h.pt_ref.src

\* The category whose hidden set _hide_hovered adds to.
HideCategory(h) == h.type

\* `self.hover = None`, the statement after self._save() in _hide_hovered
HoverCleared(w) == IF Raised(w) THEN w ELSE [w EXCEPT !.hover = NoHover]

\* _hide_hovered
_hide_hovered(w) ==
  IF w.hover = NoHover THEN w
  ELSE LET tkey == HideCategory(w.hover)
           hk   == JText(_hidden_key(tkey, w.hover.pt_ref))
           w1   == [w EXCEPT !.hidden_sets[tkey] = @ \cup {hk}]
       IN  HoverCleared(_save([w1 EXCEPT !.ev.hid = w.hover]))

\* Squared distance, in units of 1/CoordDen pixel, from pointer p to the screen
\* position (rect.left + u * rect.width, rect.top + v * rect.height) of pt.  The
\* rectangles of the model have sides that are multiples of GridMax, so the
\* division is exact.
Dist2(r, p, pt) ==
  LET cx == r.left * CoordDen + (pt.u * r.width) \div GridMax
      cy == r.top * CoordDen + (pt.v * r.height) \div GridMax
      dx == p.x * CoordDen - cx
      dy == p.y * CoordDen - cy
  IN  dx * dx + dy * dy

\* hover_radius * hover_radius in the units of Dist2
Radius2 == hover_radius * hover_radius * CoordDen * CoordDen

\* A scan that keeps the first of the nearest points.
CloserOnly(d2, best_d2) == d2 < best_d2

\* `if d2 <= best_d2`
Closer(d2, best_d2) == d2 <= best_d2

\* The inner loop of _update_hover over the points of one category, from index
\* i (one-based here): b is <<best, best_d2>>.
RECURSIVE ScanPoints(_, _, _, _, _)
ScanPoints(w, p, tkey, i, b) ==
  LET pts == w.cache[w.prof][tkey]
  IN  IF i > Len(pts) THEN b
      ELSE LET pt == pts[i]
               d2 == Dist2(w.rect, p, pt)
           IN  IF ~_is_hidden(w, tkey, pt) /\ Closer(d2, b[2])
               THEN ScanPoints(w, p, tkey, i + 1,
                      <<[map |-> w.prof, type |-> tkey, index |-> i - 1, pt_ref |-> pt],
                        d2>>)
               ELSE ScanPoints(w, p, tkey, i + 1, b)

\* The outer loop over type_order, from position t.
RECURSIVE ScanTypes(_, _, _, _)
ScanTypes(w, p, t, b) ==
  IF t > Len(type_order) THEN b
  ELSE IF ~Enabled(w, type_order[t]) THEN ScanTypes(w, p, t + 1, b)
  ELSE ScanTypes(w, p, t + 1, ScanPoints(w, p, type_order[t], 1, b))

\* _update_hover with the pointer at p (overlay coordinates)
_update_hover(w, p) ==
  IF ~(w.master /\ w.visible /\ w.rect # NoRect)
  THEN [w EXCEPT !.hover = NoHover]
  ELSE [w EXCEPT !.hover = ScanTypes(w, p, 1, <<NoHover, Radius2>>)[1],
                 !.ev.ptr = p]

(***************************************************************************)
(* The panel's callbacks and switch                                        *)
(***************************************************************************)
_set_num_switch(w, v) == _save([w EXCEPT !.num_sw = v])

_type_toggle(w, tkey, enabled) ==
  IF Has(w.types, tkey)
  THEN _save([w EXCEPT !.types = Put(@, tkey, Put(@.v[tkey], "enabled", JBool(enabled)))])
  ELSE w

_type_color(w, tkey, color) ==
  IF Has(w.types, tkey)
  THEN _save([w EXCEPT !.types = Put(@, tkey, Put(@.v[tkey], "color", color))])
  ELSE w

_scale_changed(w, scale) == _save([w EXCEPT !.global_scale = ClampScale(scale)])

\* A reset that empties the hidden sets as well.
ResetUnhides(w) == _save([w EXCEPT !.hidden_sets = [c \in Categories |-> {}]])

_reset_colors(w) ==
  _save([w EXCEPT !.types =
           JDict([k \in DOMAIN @.v |->
                    IF k \in Categories
                    THEN JDict(Update(@.v[k].v,
                                      [enabled |-> JBool(TRUE), color |-> DefaultFill(k)]))
                    ELSE @.v[k]])])

\* switch without the test `name != self.prof`.
SwitchAgain(w, name) ==
  IF name \in MapNames
  THEN _save(Fired([w EXCEPT !.prof = name, !.rect = _apply_rect(w.data, name)],
                   "switch"))
  ELSE w

\* self.prof is assigned before _apply_rect runs: when that raises, the map is
\* selected with the rectangle of the map before, and nothing is saved.
switch(w, name) ==
  IF name \in MapNames /\ name # w.prof
  THEN IF ApplyRectRaises(w.data, name)
       THEN Raise(Fired([w EXCEPT !.prof = name], "switch"))
       ELSE _save(Fired([w EXCEPT !.prof = name, !.rect = _apply_rect(w.data, name)],
                        "switch"))
  ELSE w

(***************************************************************************)
(* InputEdgeDetector: Overlay._tick                                        *)
(*                                                                         *)
(* k is the state of the keys during the tick, what key(vk) returns for    *)
(* each of them: bt, h, tab, the set nums of the held keys 1-4, and the    *)
(* four keys of the chord.  p is the pointer position.                     *)
(***************************************************************************)
\* A master toggle that never forces the overlay hidden.
ForcedHideNever(w) == FALSE

\* `not self.master and self.visible`, after master was flipped
ForcedHide(w) == ~w.master /\ w.visible

\* The assignment that ends a step, `self.pbt = nb` and the like: it runs
\* unless the step raised.
Sample(w, field, val) == IF Raised(w) THEN w ELSE [w EXCEPT ![field] = val]

\* `if not self.master: ... self.visible = False`
HideForced(m) == IF ForcedHide(m) THEN [m EXCEPT !.visible = FALSE] ELSE m

\* nb = key(VK_BT) ... self.pbt = nb
StepMaster(w, k) ==
  Sample(IF k.bt /\ ~w.pbt
         THEN _save(Fired(HideForced([w EXCEPT !.master = ~@]), "master"))
         ELSE w,
         "pbt", k.bt)

\* nh = key(VK_H) ... self.pH = nh
StepHideNow(w, k) ==
  IF Raised(w) THEN w
  ELSE Sample(IF k.h /\ ~w.pH /\ w.visible
              THEN _save(Fired([w EXCEPT !.visible = FALSE], "hide_now"))
              ELSE w,
              "pH", k.h)

\* A tick without the return on master off.
MasterOffIgnored(w) == FALSE

\* `if not self.master: return`
MasterOff(w) == ~w.master

\* nt = key(VK_TAB) ... self.pT = nt
StepTab(w, k) ==
  IF Raised(w) THEN w
  ELSE Sample(IF k.tab /\ ~w.pT
              THEN _save(Fired([w EXCEPT !.visible = ~@], "tab"))
              ELSE w,
              "pT", k.tab)

\* The chain over the keys 1-4 tried from the highest key down.
StepNumHighest(w, k) ==
  IF ~Raised(w) /\ w.visible /\ w.num_sw
  THEN IF 4 \in k.nums THEN switch(w, MAPS[4])
       ELSE IF 3 \in k.nums THEN switch(w, MAPS[3])
       ELSE IF 2 \in k.nums THEN switch(w, MAPS[2])
       ELSE IF 1 \in k.nums THEN switch(w, MAPS[1])
       ELSE w
  ELSE w

\* `if self.visible and self.num_sw:` the if/elif chain over the keys 1-4
StepNum(w, k) ==
  IF ~Raised(w) /\ w.visible /\ w.num_sw
  THEN IF 1 \in k.nums THEN switch(w, MAPS[1])
       ELSE IF 2 \in k.nums THEN switch(w, MAPS[2])
       ELSE IF 3 \in k.nums THEN switch(w, MAPS[3])
       ELSE IF 4 \in k.nums THEN switch(w, MAPS[4])
       ELSE w
  ELSE w

\* `if self.visible: self._update_hover()`
StepHover(w, p) == IF ~Raised(w) /\ w.visible THEN _update_hover(w, p) ELSE w

\* key(VK_DELETE) and key(VK_CONTROL) and key(VK_MENU) and key(VK_SHIFT)
Chord(k) == k.delete /\ k.control /\ k.menu /\ k.shift

\* hide_now = ...; if hide_now and not self.pHide: self._hide_hovered()
StepChord(w, k) ==
  IF Raised(w) THEN w
  ELSE Sample(IF Chord(k) /\ ~w.pHide
              THEN _hide_hovered(Fired(w, "hide_hovered"))
              ELSE w,
              "pHide", Chord(k))

\* The statements of _tick after `if not self.master: return`.
AfterReturn(w, k, p) ==
  IF MasterOff(w) THEN w
  ELSE StepChord(StepHover(StepNum(StepTab(w, k), k), p), k)

\* _tick: each statement runs unless an exception is on its way out.
_tick(w, k, p) == AfterReturn(StepHideNow(StepMaster(w, k), k), k, p)

\* The key states of the tick, as the record of the operation keeps them.
Sampled(w, k) ==
  [w EXCEPT
     !.ev.polled = [bt |-> k.bt, h |-> k.h, tab |-> k.tab, chord |-> Chord(k),
                    nums |-> k.nums],
     !.ev.holdEmpty =
        /\ Chord(k)
        /\ IF w.ev.polled.chord THEN w.ev.holdEmpty
           ELSE w.hover = NoHover /\ w.ev.hid = NoHover]

(***************************************************************************)
(* Actions                                                                 *)
(***************************************************************************)
\* One run of the timer's _tick_safe.
Tick(k, p) == Becomes(Sampled(_tick(Begin(Self, "tick"), k, p), k))

\* The panel's signals.
NumSwitch(v) == Becomes(_set_num_switch(Begin(Self, "num_switch"), v))

TypeToggle(tkey, enabled) == Becomes(_type_toggle(Begin(Self, "type_toggle"), tkey, enabled))

TypeColor(tkey, color) == Becomes(_type_color(Begin(Self, "type_color"), tkey, color))

ScaleChanged(scale) == Becomes(_scale_changed(Begin(Self, "scale"), scale))

ResetColors == Becomes(_reset_colors(Begin(Self, "reset_colors")))

MapSel(name) == Becomes(switch(Begin(Self, "map_sel"), name))

\* The state after Overlay.__init__ with config.json holding `file` and
\* poiData.json holding `game_data`.
Holds(w) ==
      /\ num_sw = w.num_sw
      /\ prof = w.prof
      /\ visible = w.visible
      /\ master = w.master
      /\ global_scale = w.global_scale
      /\ types = w.types
      /\ hidden_sets = w.hidden_sets
      /\ rect = w.rect
      /\ pbt = w.pbt
      /\ pH = w.pH
      /\ pT = w.pT
      /\ pHide = w.pHide
      /\ hover = w.hover
      /\ cache = w.cache
      /\ data = w.data
      /\ disk = w.disk
      /\ fs = w.fs
      /\ ev = [FirstEv EXCEPT !.was = [master |-> w.master, visible |-> w.visible]]

StartedOn(file, game_data) ==
  ~StartupRaises(file, game_data) /\ Holds(Startup(file, game_data))

\* The state after Overlay.__init__ with config.json holding `file`.
Started(file) == StartedOn(file, GameData)

\* The file system turns before the first operation of a session: from now on
\* a write of config.json meets `f`.
DiskTurns(f) ==
  /\ ev.op = "init"
  /\ fs # f
  /\ fs' = f
  /\ UNCHANGED <<num_sw, prof, visible, master, global_scale, types, hidden_sets,
                 rect, pbt, pH, pT, pHide, hover, cache, data, disk, ev>>

\* No Overlay object: the value of every field when __init__ raised.
NoOverlay == [none |-> TRUE]

\* Overlay.__init__ raised with config.json holding `file` and poiData.json
\* holding `game_data`: __main__ shows the error in a message box and exits
\* with status 1.
ExitedOn(file, game_data) ==
  /\ StartupRaises(file, game_data)
  /\ num_sw = NoOverlay
  /\ prof = NoOverlay
  /\ visible = NoOverlay
  /\ master = NoOverlay
  /\ global_scale = NoOverlay
  /\ types = NoOverlay
  /\ hidden_sets = NoOverlay
  /\ rect = NoOverlay
  /\ pbt = NoOverlay
  /\ pH = NoOverlay
  /\ pT = NoOverlay
  /\ pHide = NoOverlay
  /\ hover = NoOverlay
  /\ cache = NoOverlay
  /\ data = NoOverlay
  /\ disk = file
  /\ fs = "ok"
  /\ ev = [FirstEv EXCEPT !.op = "fatal", !.raised = TRUE]

Exited(file) == ExitedOn(file, GameData)

\* The program is closed and started again: Overlay.__init__ with the
\* config.json the last session left.
Relaunched(w) ==
  [f \in DOMAIN w \cup {"ev"} |->
     IF f = "ev"
     THEN [FirstEv EXCEPT !.op = "restart",
                          !.was = [master |-> w.master, visible |-> w.visible]]
     ELSE w[f]]

Restart ==
  ~StartupRaises(disk, GameData) /\ Becomes(Relaunched(Startup(disk, GameData)))

(***************************************************************************)
(* Inputs                                                                  *)
(***************************************************************************)
\* The rectangle of the default ratio on the model's screen.
DefaultRect == _apply_rect(_load_config(NoFile), MAPS[1])

\* The pixel at the centre of grid cell (x, y) in the default rectangle.
Over(x, y) == [x |-> DefaultRect.left + y, y |-> DefaultRect.top + (GridMax - x)]

\* On Stillwater Bayou's first tower, and far from every point.
OnTower == Over(100, 200)

Away == Over(3000, 3000)

\* The chord's keys: none held, all four, all but Delete.
ChordHolds ==
  {[delete |-> d, control |-> c, menu |-> c, shift |-> c] :
     d \in BOOLEAN, c \in BOOLEAN} \ {[delete |-> TRUE, control |-> FALSE,
                                       menu |-> FALSE, shift |-> FALSE]}

KeyState(bt, h, tab, nums, ch) ==
  [bt |-> bt, h |-> h, tab |-> tab, nums |-> nums,
   delete |-> ch.delete, control |-> ch.control, menu |-> ch.menu, shift |-> ch.shift]

\* The key states of a tick of Spec.
TickKeys ==
  {KeyState(bt, h, tab, nums, ch) :
     bt \in BOOLEAN, h \in BOOLEAN, tab \in BOOLEAN, nums \in {{}, {2}},
     ch \in ChordHolds}

TickPointers == {OnTower, Away}

\* A config.json that stores the overlay visible with master off.
VisibleMasterOff ==
  JDict([settings |-> JDict([visible_overlay |-> JBool(TRUE),
                             master_on |-> JBool(FALSE)])])

SpecFiles == {NoFile, VisibleMasterOff}

(***************************************************************************)
(* Spec: a session of ticks                                                *)
(***************************************************************************)
Init == \E file \in SpecFiles : Started(file)

Next == \E k \in TickKeys, p \in TickPointers : Tick(k, p)

Spec == Init /\ [][Next]_vars

(***************************************************************************)
(* Claims about the edge-triggered bindings                                *)
(***************************************************************************)
\* C1: in every tick, _hide_hovered is invoked exactly when the chord is sampled
\* as held and was not sampled as held in the tick before: once per maximal run
\* of ticks with all four keys held, on the first tick of the run, whatever
\* master and visible are.
C1_HideOncePerHold ==
  [][ev'.op = "tick" =>
       (("hide_hovered" \in ev'.fired) <=> (ev'.polled.chord /\ ~ev.polled.chord))]_vars

\* C2: after every tick each previous-sample boolean equals the state its key
\* (or the chord) had in that tick, whatever master is.
C2_PrevSamplesFollowKeys ==
  ev.op = "tick" =>
    /\ pbt = ev.polled.bt
    /\ pH = ev.polled.h
    /\ pT = ev.polled.tab
    /\ pHide = ev.polled.chord

\* C3: in a tick, master flips iff backtick is pressed and was not pressed in
\* the tick before; Tab toggles visible iff master is on, Tab is pressed and was
\* not pressed in the tick before; hide-now fires iff H is pressed, was not
\* pressed in the tick before and the overlay is visible when the tick comes
\* to H (after the master step).
C3_TwoStateBindings ==
  [][ev'.op = "tick" =>
       LET visibleAtH == visible /\ ~("master" \in ev'.fired /\ ~master')
       IN  /\ (master' # master) <=> (ev'.polled.bt /\ ~ev.polled.bt)
           /\ ("master" \in ev'.fired) <=> (master' # master)
           /\ ("tab" \in ev'.fired) <=> (master' /\ ev'.polled.tab /\ ~ev.polled.tab)
           /\ ("hide_now" \in ev'.fired)
                <=> (ev'.polled.h /\ ~ev.polled.h /\ visibleAtH)]_vars

\* C4: a tick whose master toggle turns master off while the overlay is visible
\* ends with visible false, and the configuration it wrote records master_on
\* false and visible_overlay false.
C4_MasterOffForcesHide ==
  (ev.op = "tick" /\ "master" \in ev.fired /\ ev.was.master /\ ev.was.visible) =>
    /\ ~master
    /\ ~visible
    /\ ev.saves >= 1
    /\ Settings(disk).v["master_on"] = JBool(FALSE)
    /\ Settings(disk).v["visible_overlay"] = JBool(FALSE)

C4_Witness ==
  ev.op = "tick" /\ "master" \in ev.fired /\ ev.was.master /\ ev.was.visible

\* C5: a tick in which master is off after the master-toggle step leaves the
\* selected map and the rectangle as they were, fires neither the Tab toggle nor
\* a map switch, saves only for the master toggle and hide-now, and leaves
\* visible as those two left it.
C5_InertWhenMasterOff ==
  [][(ev'.op = "tick" /\ ~master') =>
       /\ prof' = prof
       /\ rect' = rect
       /\ "tab" \notin ev'.fired
       /\ "switch" \notin ev'.fired
       /\ ev'.saves = Cardinality(ev'.fired \cap {"master", "hide_now"})
       /\ visible' = (visible /\ ev'.fired \cap {"master", "hide_now"} = {})]_vars

\* A tick with master off, the overlay visible and number switching on, in
\* which Tab went down and a number key of another map was held.
C5_Witness ==
  /\ ev.op = "tick"
  /\ ~master
  /\ visible
  /\ num_sw
  /\ ev.polled.tab
  /\ ~pT
  /\ \E n \in ev.polled.nums : MAPS[n] # prof

\* C6: a tick in which the chord goes down with no hover result leaves the
\* hidden sets alone, saves nothing for the chord and sets the chord's previous
\* sample; and while the chord stays held after such a tick, nothing is hidden.
C6_EmptyChordPressIsSpent ==
  [][ev'.op = "tick" =>
       /\ (ev'.polled.chord /\ ~ev.polled.chord /\ hover' = NoHover /\ ev'.hid = NoHover)
            => (hidden_sets' = hidden_sets /\ pHide')
       /\ (ev'.polled.chord /\ ev.polled.chord /\ ev.holdEmpty)
            => (hidden_sets' = hidden_sets /\ ev'.hid = NoHover)]_vars

(***************************************************************************)
(* SpecHover: the pointer moves over the visible overlay while categories  *)
(* are switched on and off and the map is changed                          *)
(***************************************************************************)
\* The ids _hidden_key gives the point (x, y): in a category of its own, and in
\* possible_xp for the source category src.
Id(x, y) == JText(IntText(x) \o Colon \o IntText(y))

XpId(src, x, y) == JText(CategoryText[src] \o Colon \o IntText(x) \o Colon \o IntText(y))

\* settings["hidden"] of the configuration files of SpecHover.
HoverHidden ==
  {EmptyDict,
   JDict([towers |-> JList(<<Id(1000, 2003)>>),
          possible_xp |-> JList(<<XpId("towers", 1000, 2003)>>)]),
   JDict([big_towers |-> JList(<<Id(1000, 2010)>>)]),
   JDict([towers |-> JList(<<Id(1000, 1997), Id(1000, 2003)>>)])}

\* A rect ratio that gives a rectangle of two pixels per cell at the screen's
\* origin.
WideRatio ==
  JDict([rx |-> JNum(0, 1), ry |-> JNum(0, 1),
         rw |-> JNum(2 * GridMax, ScreenW), rh |-> JNum(2 * GridMax, ScreenH)])

\* A config.json with the overlay visible, the ids of h hidden, and the wide
\* rectangle for DeSalle.
HoverFile(h) ==
  JDict([settings |-> JDict([visible_overlay |-> JBool(TRUE), hidden |-> h]),
         profiles |-> JDict([m \in {MAPS[2]} |-> JDict([rect_ratio |-> WideRatio])])])

NoKeys ==
  KeyState(FALSE, FALSE, FALSE, {},
           [delete |-> FALSE, control |-> FALSE, menu |-> FALSE, shift |-> FALSE])

\* Pointer positions.  On Stillwater Bayou: at cell (1000, 2000), between the
\* towers; at (1010, 2010), ten pixels from the watch tower; at (1003, 2000),
\* next to the armory.  On DeSalle's wide rectangle: three pixels from the tower
\* and from the armory.
BetweenTowers == Over(1000, 2000)

AtRadius == Over(1010, 2010)

ByArmory == Over(1003, 2000)

OnDeSalle == [x |-> 2 * 200 + 3, y |-> 2 * (GridMax - 100)]

HoverPointers == {BetweenTowers, AtRadius, ByArmory, OnTower, OnDeSalle, Away}

HoverToggles == {"towers", "possible_xp", "big_towers"}

HoverMaps == {MAPS[1], MAPS[2]}

InitHover == \E h \in HoverHidden : Started(HoverFile(h))

NextHover ==
  \/ \E p \in HoverPointers : Tick(NoKeys, p)
  \/ \E tkey \in HoverToggles, enabled \in BOOLEAN : TypeToggle(tkey, enabled)
  \/ \E name \in HoverMaps : MapSel(name)

SpecHover == InitHover /\ [][NextHover]_vars

(***************************************************************************)
(* Claims about the hit test                                               *)
(***************************************************************************)
\* C7: after a tick that scanned for a hover result (master on, overlay
\* visible) and hid nothing, the result is none iff every point of the selected
\* map in an enabled category, not hidden in that category, is at a squared
\* distance above the squared radius from the pointer; otherwise it is such a
\* point, within the radius, at the least squared distance of them all.
C7_HoverIsNearestCandidate ==
  LET pts(t) == cache[prof][type_order[t]]
      all    == UNION {{<<t, i>> : i \in 1..Len(pts(t))} : t \in 1..Len(type_order)}
      cand   == {c \in all :
                   /\ Truthy(Get(Get(types, type_order[c[1]], EmptyDict),
                                 "enabled", JBool(TRUE)))
                   /\ JText(_hidden_key(type_order[c[1]], pts(c[1])[c[2]]))
                        \notin hidden_sets[type_order[c[1]]]}
      d2(c)  == Dist2(rect, ev.ptr, pts(c[1])[c[2]])
      res(c) == [map |-> prof, type |-> type_order[c[1]], index |-> c[2] - 1,
                 pt_ref |-> pts(c[1])[c[2]]]
  IN  (ev.op = "tick" /\ master /\ visible /\ "hide_hovered" \notin ev.fired) =>
        /\ (hover = NoHover) <=> (\A c \in cand : d2(c) > Radius2)
        /\ hover # NoHover =>
             \E c \in cand : /\ hover = res(c)
                             /\ d2(c) <= Radius2
                             /\ \A o \in cand : d2(c) <= d2(o)

\* A scan whose result is farther from the pointer than a point of a disabled
\* category and than a point hidden in its category.
C7_Witness ==
  LET pts(t) == cache[prof][type_order[t]]
      all    == UNION {{<<t, i>> : i \in 1..Len(pts(t))} : t \in 1..Len(type_order)}
      on(c)  == Truthy(Get(Get(types, type_order[c[1]], EmptyDict), "enabled", JBool(TRUE)))
      hid(c) == JText(_hidden_key(type_order[c[1]], pts(c[1])[c[2]]))
                   \in hidden_sets[type_order[c[1]]]
      d2(c)  == Dist2(rect, ev.ptr, pts(c[1])[c[2]])
  IN  /\ ev.op = "tick" /\ master /\ visible /\ "hide_hovered" \notin ev.fired
      /\ hover # NoHover
      /\ \E c \in all : ~on(c) /\ d2(c) < Dist2(rect, ev.ptr, hover.pt_ref)
      /\ \E c \in all : on(c) /\ hid(c) /\ d2(c) < Dist2(rect, ev.ptr, hover.pt_ref)

\* C8: when several candidates are at the least squared distance, the radius
\* included, the hover result is the last of them in the order of the scan: of
\* the latest category in type_order and, in it, of the highest index.
C8_LastOfTheNearestWins ==
  LET pts(t) == cache[prof][type_order[t]]
      all    == UNION {{<<t, i>> : i \in 1..Len(pts(t))} : t \in 1..Len(type_order)}
      cand   == {c \in all :
                   /\ Truthy(Get(Get(types, type_order[c[1]], EmptyDict),
                                 "enabled", JBool(TRUE)))
                   /\ JText(_hidden_key(type_order[c[1]], pts(c[1])[c[2]]))
                        \notin hidden_sets[type_order[c[1]]]}
      d2(c)  == Dist2(rect, ev.ptr, pts(c[1])[c[2]])
      least  == {c \in cand : d2(c) <= Radius2 /\ \A o \in cand : d2(c) <= d2(o)}
      after(a, b) == a[1] > b[1] \/ (a[1] = b[1] /\ a[2] > b[2])
  IN  (ev.op = "tick" /\ master /\ visible /\ "hide_hovered" \notin ev.fired) =>
        \A c \in least :
           (\A o \in least \ {c} : after(c, o)) =>
              /\ hover # NoHover
              /\ hover.type = type_order[c[1]]
              /\ hover.index = c[2] - 1
              /\ hover.pt_ref = pts(c[1])[c[2]]

\* A scan with four candidates at the least distance, two in each of two
\* categories.
C8_Witness ==
  LET pts(t) == cache[prof][type_order[t]]
      all    == UNION {{<<t, i>> : i \in 1..Len(pts(t))} : t \in 1..Len(type_order)}
      cand   == {c \in all :
                   /\ Truthy(Get(Get(types, type_order[c[1]], EmptyDict),
                                 "enabled", JBool(TRUE)))
                   /\ JText(_hidden_key(type_order[c[1]], pts(c[1])[c[2]]))
                        \notin hidden_sets[type_order[c[1]]]}
      d2(c)  == Dist2(rect, ev.ptr, pts(c[1])[c[2]])
      least  == {c \in cand : d2(c) <= Radius2 /\ \A o \in cand : d2(c) <= d2(o)}
  IN  /\ ev.op = "tick" /\ master /\ visible /\ "hide_hovered" \notin ev.fired
      /\ hover # NoHover
      /\ \E a, b, c, d \in least :
           /\ a[1] = b[1] /\ a[2] < b[2]
           /\ c[1] = d[1] /\ c[2] < d[2]
           /\ b[1] < c[1]

(***************************************************************************)
(* SpecOps: a session of ticks and of the panel's operations               *)
(***************************************************************************)
\* A config.json that stores the overlay visible.
VisibleFile == JDict([settings |-> JDict([visible_overlay |-> JBool(TRUE)])])

ChordAll == [delete |-> TRUE, control |-> TRUE, menu |-> TRUE, shift |-> TRUE]

ChordNone == [delete |-> FALSE, control |-> FALSE, menu |-> FALSE, shift |-> FALSE]

\* The key states of a tick of SpecOps: nothing, the chord, the key 2.
OpsKeys ==
  {NoKeys,
   KeyState(FALSE, FALSE, FALSE, {}, ChordAll),
   KeyState(FALSE, FALSE, FALSE, {2}, ChordNone)}

OpsPointers == {OnTower, Away}

OpsToggles == {"towers"}

OpsColors == {Rgb(1, 2, 3)}

OpsScales == {<<2, 1>>}

OpsMaps == {MAPS[1], MAPS[2]}

InitOps == Started(VisibleFile)

NextOps ==
  \/ \E k \in OpsKeys, p \in OpsPointers : Tick(k, p)
  \/ \E v \in BOOLEAN : NumSwitch(v)
  \/ \E tkey \in OpsToggles, enabled \in BOOLEAN : TypeToggle(tkey, enabled)
  \/ \E tkey \in OpsToggles, color \in OpsColors : TypeColor(tkey, color)
  \/ \E scale \in OpsScales : ScaleChanged(scale)
  \/ ResetColors
  \/ \E name \in OpsMaps : MapSel(name)

SpecOps == InitOps /\ [][NextOps]_vars

(***************************************************************************)
(* Claims about the hidden sets                                            *)
(***************************************************************************)
\* C9: a tick whose chord hides a hover result of category possible_xp changes
\* the hidden set of possible_xp alone, and the point is hidden in its source
\* category after the tick only if it was before; a tick that hides a result of
\* a source category changes that category's hidden set alone, and the point
\* is hidden in possible_xp after the tick only if it was before.
C9_HidingIsPerCategory ==
  [][(ev'.op = "tick" /\ ev'.hid # NoHover) =>
       LET t     == ev'.hid.type
           pt    == ev'.hid.pt_ref
           other == IF t = "possible_xp" THEN pt.src ELSE "possible_xp"
       IN  /\ JText(_hidden_key(t, pt)) \in hidden_sets'[t]
           /\ \A c \in Categories \ {t} : hidden_sets'[c] = hidden_sets[c]
           /\ (JText(_hidden_key(other, pt)) \in hidden_sets'[other])
                <=> (JText(_hidden_key(other, pt)) \in hidden_sets[other])]_vars

\* A tick has hidden a possible_xp result whose point is not hidden in its
\* source category.
C9_Witness ==
  /\ ev.op = "tick"
  /\ ev.hid # NoHover
  /\ ev.hid.type = "possible_xp"
  /\ JText(_hidden_key(ev.hid.pt_ref.src, ev.hid.pt_ref))
       \notin hidden_sets[ev.hid.pt_ref.src]

\* C10: every operation of a session (a tick, a map switch, a type toggle, a
\* colour change, a scale change, the reset of the colours, the number-switch
\* toggle) leaves each category's hidden set a superset of what it was.
C10_HiddenSetsOnlyGrow ==
  [][\A c \in Categories : hidden_sets[c] \subseteq hidden_sets'[c]]_vars

\* The colours were reset with ids hidden in two categories.
C10_Witness ==
  /\ ev.op = "reset_colors"
  /\ hidden_sets["towers"] # {}
  /\ hidden_sets["possible_xp"] # {}

(***************************************************************************)
(* SpecId: POIs are hidden while the map, with it the rectangle, and the   *)
(* scale change                                                            *)
(***************************************************************************)
IdPointers == {OnTower, OnDeSalle, Away}

IdKeys == {NoKeys, KeyState(FALSE, FALSE, FALSE, {}, ChordAll)}

InitId == Started(HoverFile(EmptyDict))

NextId ==
  \/ \E k \in IdKeys, p \in IdPointers : Tick(k, p)
  \/ \E name \in HoverMaps : MapSel(name)
  \/ \E scale \in OpsScales : ScaleChanged(scale)

SpecId == InitId /\ [][NextId]_vars

(***************************************************************************)
(* Claims about the identity of a point                                    *)
(***************************************************************************)
\* C11: for every cached point of every map and every category, the id is the
\* text of the rounded coordinates, after the source category for possible_xp,
\* and nothing else; the point is reported hidden in the category exactly when
\* that text is in the category's hidden set; and a point reported hidden in a
\* category is still reported hidden there after every step, map switches
\* (which change the rectangle) and scale changes included.
C11_IdentityOfRoundedCoordinates ==
  [][\A m \in MapNames, c \in Categories :
       \A i \in 1..Len(cache[m][c]) :
          LET pt   == cache[m][c][i]
              xy   == IntText(RoundHalfEven(pt.x)) \o Colon \o IntText(RoundHalfEven(pt.y))
              text == IF c = "possible_xp" THEN CategoryText[pt.src] \o Colon \o xy ELSE xy
          IN  /\ _hidden_key(c, pt) = text
              /\ _is_hidden(Self, c, pt) <=> JText(text) \in hidden_sets[c]
              /\ _is_hidden(Self, c, pt) => _is_hidden(Self, c, pt)']_vars

\* A tower is hidden, and DeSalle with its wide rectangle is selected at another
\* scale than the one the session started with.
C11_Witness ==
  /\ hidden_sets["towers"] # {}
  /\ hidden_sets["possible_xp"] # {}
  /\ prof = MAPS[2]
  /\ rect # DefaultRect
  /\ global_scale # <<1, 1>>

(***************************************************************************)
(* SpecWrite: every binding of the tick and every operation of the panel,  *)
(* from a config.json that lists two hidden towers in descending order     *)
(***************************************************************************)
\* One key (or the chord) held in a tick, or none.
WriteKeys ==
  {NoKeys,
   KeyState(TRUE, FALSE, FALSE, {}, ChordNone),
   KeyState(FALSE, TRUE, FALSE, {}, ChordNone),
   KeyState(FALSE, FALSE, TRUE, {}, ChordNone),
   KeyState(FALSE, FALSE, FALSE, {3}, ChordNone),
   KeyState(FALSE, FALSE, FALSE, {}, ChordAll)}

WritePointers == {OnTower}

\* Stillwater Bayou and Lawson Delta, which has no points.
WriteMaps == {MAPS[1], MAPS[3]}

WriteFile ==
  JDict([settings |->
           JDict([hidden |-> JDict([towers |-> JList(<<Id(1000, 2003), Id(1000, 1997)>>)])])])

InitWrite == Started(WriteFile)

NextWrite ==
  \/ \E k \in WriteKeys, p \in WritePointers : Tick(k, p)
  \/ \E v \in BOOLEAN : NumSwitch(v)
  \/ \E tkey \in OpsToggles, enabled \in BOOLEAN : TypeToggle(tkey, enabled)
  \/ \E tkey \in OpsToggles, color \in OpsColors : TypeColor(tkey, color)
  \/ \E scale \in OpsScales : ScaleChanged(scale)
  \/ ResetColors
  \/ \E name \in WriteMaps : MapSel(name)

SpecWrite == InitWrite /\ [][NextWrite]_vars

(***************************************************************************)
(* Claims about the configuration file                                     *)
(***************************************************************************)
\* C12: after every step that changes num_sw, prof, visible, master,
\* global_scale, types or a hidden set, the settings of the file equal the
\* fields in memory: the five scalars, types, and hidden with exactly the 11
\* categories as keys, each the strictly ascending list of the ids of the set.
C12_WriteThrough ==
  [][(\/ num_sw' # num_sw
      \/ prof' # prof
      \/ visible' # visible
      \/ master' # master
      \/ global_scale' # global_scale
      \/ types' # types
      \/ hidden_sets' # hidden_sets) =>
       /\ IsDict(disk')
       /\ LET st == Settings(disk').v
          IN  /\ st["enable_num_switch"] = JBool(num_sw')
              /\ st["selected_map"] = JStr(prof')
              /\ st["visible_overlay"] = JBool(visible')
              /\ st["master_on"] = JBool(master')
              /\ st["global_scale"] = JNum(global_scale'[1], global_scale'[2])
              /\ st["types"] = types'
              /\ IsDict(st["hidden"])
              /\ DOMAIN st["hidden"].v = Categories
              /\ Cardinality(DOMAIN st["hidden"].v) = 11
              /\ \A c \in Categories :
                   LET ids == st["hidden"].v[c]
                   IN  /\ IsList(ids)
                       /\ {ids.v[i] : i \in 1..Len(ids.v)} = hidden_sets'[c]
                       /\ \A i \in 1..(Len(ids.v) - 1) :
                            LexLess(ids.v[i].v, ids.v[i + 1].v)]_vars

\* After a scale change the file lists three hidden towers, of which the one
\* hidden in the session comes last.
C12_Witness ==
  /\ ev.op = "scale"
  /\ global_scale # <<1, 1>>
  /\ Settings(disk).v["hidden"].v["towers"] =
       JList(<<Id(1000, 1997), Id(1000, 2003), Id(100, 200)>>)

(***************************************************************************)
(* SpecLoad: sessions that start from many payloads of config.json, save,  *)
(* and are started again from what they saved                              *)
(***************************************************************************)
\* A config.json with fields beside the ones the program knows, a profile of a
\* name that is no map, a profile without rect_ratio, one whose rect_ratio is a
\* string, values the program converts (1 for true, a scale of 9, a map name
\* that is no map) and a hidden list out of order with an id twice.
OddFile ==
  JDict([profiles |->
           JDict([m \in {MAPS[1], MAPS[2], "Elsewhere"} |->
                    IF m = MAPS[1] THEN JDict([note |-> JStr("no ratio")])
                    ELSE IF m = MAPS[2] THEN JDict([rect_ratio |-> JStr("wide")])
                    ELSE JDict([rect_ratio |-> WideRatio])]),
         settings |->
           JDict([enable_num_switch |-> JNum(1, 1),
                  selected_map |-> JStr("Elsewhere"),
                  global_scale |-> JNum(9, 1),
                  theme |-> JStr("dark"),
                  types |-> JDict([towers |-> JDict([enabled |-> JBool(FALSE)]),
                                   ghosts |-> JNum(3, 1)]),
                  hidden |-> JDict([towers |-> JList(<<Id(1000, 2003), Id(100, 200),
                                                       Id(1000, 2003)>>),
                                    spawns |-> JStr("all"),
                                    ghosts |-> JNull])]),
         version |-> JNum(2, 1)])

\* A scale below the range, and a selected map.
SmallFile ==
  JDict([settings |-> JDict([global_scale |-> JNum(2, 100),
                             selected_map |-> JStr(MAPS[2]),
                             visible_overlay |-> JBool(TRUE)])])

\* Payloads that hold nothing: no file, a file json.load rejects, and the JSON
\* texts {}, [] and null.
EmptyFiles == {NoFile, Unparsable, EmptyDict, JList(<<>>), JNull}

LoadFiles ==
  EmptyFiles \cup {OddFile, SmallFile, WriteFile, VisibleMasterOff, HoverFile(EmptyDict)}

LoadScales == {<<2, 1>>, <<1, 1>>}

InitLoad == \E file \in LoadFiles : Started(file)

NextLoad ==
  \/ Restart
  \/ \E v \in BOOLEAN : NumSwitch(v)
  \/ \E name \in HoverMaps : MapSel(name)
  \/ \E scale \in LoadScales : ScaleChanged(scale)

SpecLoad == InitLoad /\ [][NextLoad]_vars

\* C13: a start from the file a session has saved loads that file as it is:
\* self.data is the file, every field in memory is what it was, and a save
\* writes the same file again; and a start from a payload that holds nothing
\* gives exactly the default structure, with the 4 profiles of the default
\* ratio, the default settings, 11 categories in types and 11 empty lists in
\* hidden.
C13_LoadOfSavedIsIdentity ==
  [][ev'.op = "restart" =>
       /\ (ev.saves >= 1) =>
            /\ _load_config(disk) = disk
            /\ data' = disk
            /\ <<num_sw', prof', visible', master', global_scale', types',
                 hidden_sets', rect'>>
                 = <<num_sw, prof, visible, master, global_scale, types,
                     hidden_sets, rect>>
            /\ _save(Self').disk = disk
       /\ (disk \in EmptyFiles) =>
            data' = JDict(
              [profiles |->
                 JDict([m \in MapNames |-> JDict([rect_ratio |-> default_rect_ratio])]),
               settings |->
                 JDict([enable_num_switch |-> JBool(TRUE),
                        selected_map |-> JStr(MAPS[1]),
                        visible_overlay |-> JBool(FALSE),
                        master_on |-> JBool(TRUE),
                        global_scale |-> JNum(1, 1),
                        types |->
                          JDict([k \in Categories |->
                                   JDict([enabled |-> JBool(TRUE),
                                          color |-> DefaultFill(k)])]),
                        hidden |-> JDict([k \in Categories |-> JList(<<>>)])])])]_vars

\* A session that started from the odd file and saved has been started again.
C13_Witness ==
  /\ ev.op = "restart"
  /\ Has(disk, "profiles") /\ Has(Profiles(disk), "Elsewhere")
  /\ Has(disk, "settings") /\ Has(Settings(disk), "theme")
  /\ Get(Settings(disk), "global_scale", JNull) = JNum(2, 1)

(***************************************************************************)
(* SpecShape: sessions that start from a config.json with a field of the   *)
(* wrong shape                                                             *)
(***************************************************************************)
\* A config.json with the overlay visible and settings[k] = x.
SettingsFile(k, x) ==
  JDict([settings |->
           JDict(Update([visible_overlay |-> JBool(TRUE)], [i \in {k} |-> x]))])

\* A config.json with the overlay visible and profiles[m] = p.
ProfileFile(m, p) ==
  JDict([settings |-> JDict([visible_overlay |-> JBool(TRUE)]),
         profiles |-> JDict([i \in {m} |-> p])])

\* settings.types no object, a types entry no object, settings.hidden no object,
\* a hidden entry no list, global_scale no number, selected_map none of the maps.
WrongSettings ==
  {SettingsFile("types", JList(<<>>)),
   SettingsFile("types", JDict([towers |-> JNum(3, 1)])),
   SettingsFile("hidden", JStr("none")),
   SettingsFile("hidden", JDict([towers |-> JStr("all")])),
   SettingsFile("global_scale", JNull),
   SettingsFile("selected_map", JStr("Elsewhere")),
   SettingsFile("selected_map", JNum(2, 1))}

\* A rect_ratio without rw and rh.
ShortRatio == JDict([rx |-> JNum(0, 1), ry |-> JNum(0, 1)])

\* No profile of any map; a profile that is a string; a rect_ratio that is a
\* string; a rect_ratio without rw and rh, for the map selected at startup and
\* for another.
WrongProfiles ==
  {ProfileFile("Elsewhere", DefaultProfile),
   ProfileFile(MAPS[2], JStr("wide")),
   ProfileFile(MAPS[2], JDict([rect_ratio |-> JStr("wide")])),
   ProfileFile(MAPS[1], JDict([rect_ratio |-> ShortRatio])),
   ProfileFile(MAPS[2], JDict([rect_ratio |-> ShortRatio]))}

ShapeKeys ==
  {NoKeys,
   KeyState(FALSE, FALSE, TRUE, {}, ChordNone),
   KeyState(FALSE, FALSE, FALSE, {2}, ChordNone),
   KeyState(FALSE, FALSE, FALSE, {}, ChordAll)}

ShapePointers == {OnTower, Away}

InitShape ==
  \E file \in WrongSettings \cup WrongProfiles : Started(file) \/ Exited(file)

\* An exited program takes no step.
NextShape ==
  \/ \E k \in ShapeKeys, p \in ShapePointers : ev.op # "fatal" /\ Tick(k, p)
  \/ \E name \in HoverMaps : ev.op # "fatal" /\ MapSel(name)

SpecShape == InitShape /\ [][NextShape]_vars

\* C14: with a config.json whose settings hold a field of the wrong shape,
\* startup ends without a fatal error, and every category has a TypeSetting
\* with enabled and color and a hidden set.
C14_StartupSurvivesWrongShapes ==
  (ev.op \in {"init", "fatal"} /\ disk \in WrongSettings) =>
    /\ ev.op # "fatal"
    /\ \A k \in Categories :
         /\ Has(types, k) /\ Has(types.v[k], "enabled") /\ Has(types.v[k], "color")
         /\ k \in DOMAIN hidden_sets

\* C15: with a config.json whose profiles are missing or of the wrong shape,
\* startup ends without an error with a rect_ratio for each of the 4 maps that
\* _apply_rect can compute a rectangle from, and no later switch raises.
C15_EveryProfileRectUsable ==
  /\ (ev.op \in {"init", "fatal"} /\ disk \in WrongProfiles) =>
       /\ ev.op # "fatal"
       /\ \A m \in MapNames :
            LET rr == Get(Get(Profiles(data), m, EmptyDict), "rect_ratio", JNull)
            IN  IsDict(rr) /\ RatioOk(rr)
  /\ ~("switch" \in ev.fired /\ ev.raised)

(***************************************************************************)
(* SpecScale: sessions that load and assign scales in and out of range     *)
(***************************************************************************)
\* global_scale in config.json: 0.02, 0.1, 2.5, 5, 9 and NaN.
FileScales == {<<2, 100>>, <<10, 100>>, <<5, 2>>, <<5, 1>>, <<9, 1>>, NaN}

\* The values _scale_changed is called with: 0.02, 1.5, 9.
AssignedScales == {<<2, 100>>, <<3, 2>>, <<9, 1>>}

ScaleKeys == {NoKeys, KeyState(FALSE, FALSE, TRUE, {}, ChordNone)}

InitScale ==
  \E q \in FileScales : Started(SettingsFile("global_scale", JNum(q[1], q[2])))

NextScale ==
  \/ \E scale \in AssignedScales : ScaleChanged(scale)
  \/ \E k \in ScaleKeys, p \in ShapePointers : Tick(k, p)
  \/ \E name \in HoverMaps : MapSel(name)
  \/ Restart

SpecScale == InitScale /\ [][NextScale]_vars

\* C16: global_scale is within [0.10, 5.00] in every state and in every
\* config.json that _save has written; a value loaded from below the range is
\* 0.10, from above it 5.00, and from within it the value itself.
C16_ScaleWithinRange ==
  LET within(q) == q[2] > 0 /\ 10 * q[2] <= 100 * q[1] /\ 100 * q[1] <= 500 * q[2]
      stored    == Settings(disk).v["global_scale"].v
  IN  /\ within(global_scale)
      /\ (ev.saves >= 1) => stored = global_scale
      /\ (ev.op \in {"init", "restart"}) =>
           global_scale = IF 100 * stored[1] < 10 * stored[2] THEN <<10, 100>>
                          ELSE IF 100 * stored[1] > 500 * stored[2] THEN <<500, 100>>
                          ELSE stored

(***************************************************************************)
(* SpecFail: sessions in which calls of a tick raise                       *)
(***************************************************************************)
\* A config.json with the overlay visible, a rect_ratio without rw and rh for
\* DeSalle, which makes _apply_rect raise on the switch to it, and a number
\* among the hidden towers, which makes sorted() in _save raise once the id of a
\* tower is hidden too.
FailFile ==
  JDict([settings |-> JDict([visible_overlay |-> JBool(TRUE),
                             hidden |-> JDict([towers |-> JList(<<JNum(7, 1)>>)])]),
         profiles |-> JDict([m \in {MAPS[2]} |-> JDict([rect_ratio |-> ShortRatio])])])

FailKeys ==
  {NoKeys,
   KeyState(TRUE, FALSE, FALSE, {}, ChordNone),
   KeyState(FALSE, TRUE, FALSE, {}, ChordNone),
   KeyState(FALSE, FALSE, TRUE, {}, ChordNone),
   KeyState(FALSE, FALSE, FALSE, {2}, ChordNone),
   KeyState(FALSE, FALSE, FALSE, {1}, ChordAll),
   KeyState(FALSE, FALSE, FALSE, {}, ChordAll)}

InitFail == Started(FailFile)

NextFail == \E k \in FailKeys, p \in ShapePointers : Tick(k, p)

SpecFail == InitFail /\ [][NextFail]_vars

\* C17: a tick in which a call raised ends there.  The raising call is the
\* last that fired, in the order master toggle, hide-now, Tab, number keys,
\* chord: what the statements before it assigned is kept (the samples of the
\* keys polled before it, the field the raising call assigned before it
\* raised), every statement after it leaves its fields as they were, and the
\* file is as the last completed save left it.  The tick after a failed one
\* runs from that state as any tick: when nothing raises in it, it samples the
\* keys.
C17_FailedTickStopsAtTheRaise ==
  [][ev'.op = "tick" =>
       LET f    == ev'.fired
           k    == ev'.polled
           last == IF "hide_hovered" \in f THEN "hide_hovered"
                   ELSE IF "switch" \in f THEN "switch"
                   ELSE IF "tab" \in f THEN "tab"
                   ELSE IF "hide_now" \in f THEN "hide_now"
                   ELSE "master"
       IN  /\ ev'.raised =>
                /\ f # {}
                /\ (f = {last}) => disk' = disk
                /\ (last = "master") =>
                     /\ master' = ~master
                     /\ <<pbt, pH, pT, pHide, hover, prof, rect, hidden_sets>>'
                          = <<pbt, pH, pT, pHide, hover, prof, rect, hidden_sets>>
                /\ (last = "hide_now") =>
                     /\ pbt' = k.bt /\ ~visible'
                     /\ <<pH, pT, pHide, hover, prof, rect, hidden_sets>>'
                          = <<pH, pT, pHide, hover, prof, rect, hidden_sets>>
                /\ (last = "tab") =>
                     /\ pbt' = k.bt /\ pH' = k.h /\ visible' = ~visible
                     /\ <<pT, pHide, hover, prof, rect, hidden_sets>>'
                          = <<pT, pHide, hover, prof, rect, hidden_sets>>
                /\ (last = "switch") =>
                     /\ pbt' = k.bt /\ pH' = k.h /\ pT' = k.tab /\ prof' # prof
                     /\ <<pHide, hover, hidden_sets>>' = <<pHide, hover, hidden_sets>>
                /\ (last = "hide_hovered") =>
                     /\ pbt' = k.bt /\ pH' = k.h /\ pT' = k.tab
                     /\ pHide' = pHide
                     /\ hover' # NoHover /\ ev'.hid = hover'
                     /\ JText(_hidden_key(hover'.type, hover'.pt_ref))
                          \in hidden_sets'[hover'.type]
           /\ (ev.raised /\ ~ev'.raised) =>
                /\ pbt' = k.bt /\ pH' = k.h
                /\ master' => pT' = k.tab /\ pHide' = k.chord]_vars

\* A tick has run to its end, the chord sampled, after a tick in which switch
\* raised: the selected map is not the one the file names.
C17_Witness ==
  /\ ev.op = "tick" /\ ~ev.raised
  /\ prof = MAPS[2]
  /\ Get(Settings(disk), "selected_map", JStr(MAPS[1])) = JStr(MAPS[1])
  /\ pHide /\ ev.polled.chord

(***************************************************************************)
(* SpecDisk: sessions in which writes of config.json fail                  *)
(***************************************************************************)
DiskKeys ==
  {NoKeys,
   KeyState(TRUE, FALSE, FALSE, {}, ChordNone),
   KeyState(FALSE, TRUE, FALSE, {}, ChordNone),
   KeyState(FALSE, FALSE, TRUE, {}, ChordNone),
   KeyState(FALSE, FALSE, FALSE, {2}, ChordNone),
   KeyState(FALSE, FALSE, FALSE, {}, ChordAll)}

DiskModes == {"denied", "torn"}

InitDisk == Started(VisibleFile)

NextDisk ==
  \/ \E f \in DiskModes : DiskTurns(f)
  \/ \E k \in DiskKeys : Tick(k, OnTower)
  \/ \E name \in HoverMaps : MapSel(name)
  \/ TypeToggle("spawns", FALSE)
  \/ \E scale \in OpsScales : ScaleChanged(scale)

SpecDisk == InitDisk /\ [][NextDisk]_vars

\* C18: while writes of config.json fail, no operation raises and each takes
\* its full effect in memory: the master toggle flips master, hide-now and Tab
\* set visible, a switch selects the map and its rectangle, the chord hides the
\* hover result and clears it, a type or scale change is assigned; the tick
\* goes on to its end and assigns the samples of the keys; self.data holds what
\* _save put there; and the file is as it was, or cut short.  Every operation
\* starts from the fields in memory, whatever the file holds.
C18_FailedWriteIsSwallowed ==
  [][(fs # "ok" /\ fs' = fs) =>
       LET f  == ev'.fired
           k  == ev'.polled
           st == Settings(data').v
       IN  /\ ~ev'.raised
           /\ (ev'.saves >= 1) =>
                /\ disk' = IF fs = "denied" THEN disk ELSE Unparsable
                /\ st["master_on"] = JBool(master')
                /\ st["visible_overlay"] = JBool(visible')
                /\ st["selected_map"] = JStr(prof')
                /\ st["global_scale"] = JNum(global_scale'[1], global_scale'[2])
                /\ st["types"] = types'
                /\ \A c \in Categories :
                     {st["hidden"].v[c].v[i] : i \in 1..Len(st["hidden"].v[c].v)}
                       = hidden_sets'[c]
           /\ (ev'.op = "tick") =>
                /\ pbt' = k.bt /\ pH' = k.h
                /\ master' => pT' = k.tab /\ pHide' = k.chord
                /\ master' = IF "master" \in f THEN ~master ELSE master
                /\ ("hide_now" \in f) => ~visible'
                /\ (f = {"tab"}) => visible' = ~visible
                /\ ("switch" \in f) =>
                     prof' # prof /\ rect' = _apply_rect(data, prof')
                /\ ("hide_hovered" \in f /\ ev'.hid # NoHover) =>
                     /\ hover' = NoHover
                     /\ JText(_hidden_key(ev'.hid.type, ev'.hid.pt_ref))
                          \in hidden_sets'[ev'.hid.type]
                /\ ev'.saves = Cardinality(f \ {"hide_hovered"})
                               + (IF ev'.hid # NoHover THEN 1 ELSE 0)
           /\ (ev'.op = "map_sel" /\ "switch" \in f) =>
                prof' # prof /\ rect' = _apply_rect(data, prof') /\ ev'.saves = 1
           /\ (ev'.op = "type_toggle") =>
                types'.v["spawns"].v["enabled"] = JBool(FALSE) /\ ev'.saves = 1
           /\ (ev'.op = "scale") =>
                global_scale' = <<2, 1>> /\ ev'.saves = 1]_vars

\* A tick in which the write failed has hidden the hover result on DeSalle, the
\* map an earlier operation selected, with the file still as the session found
\* it.
C18_Witness ==
  /\ fs = "denied"
  /\ disk = VisibleFile
  /\ ev.op = "tick" /\ ev.hid # NoHover /\ ev.saves = 1
  /\ hidden_sets["towers"] # {}
  /\ prof = MAPS[2]

(***************************************************************************)
(* SpecCache: every operation, over the cache built at startup             *)
(***************************************************************************)
CacheKeys ==
  {NoKeys,
   KeyState(FALSE, FALSE, FALSE, {2}, ChordNone),
   KeyState(FALSE, FALSE, FALSE, {}, ChordAll)}

InitCache == Started(VisibleFile)

NextCache ==
  \/ \E k \in CacheKeys : Tick(k, OnTower)
  \/ NumSwitch(FALSE)
  \/ TypeToggle("towers", FALSE)
  \/ \E color \in OpsColors : TypeColor("towers", color)
  \/ \E scale \in OpsScales : ScaleChanged(scale)
  \/ ResetColors
  \/ \E name \in HoverMaps : MapSel(name)

SpecCache == InitCache /\ [][NextCache]_vars

\* C19: for each of the 4 maps the cached possible_xp list is the towers list,
\* then the big_towers list, then the armories list, each point with the
\* category it came from, and no operation changes the cache.
C19_UnionOfThreeSources ==
  [][/\ cache' = cache
     /\ \A m \in MapNames :
          LET t == cache[m]["towers"]
              b == cache[m]["big_towers"]
              a == cache[m]["armories"]
              x == cache[m]["possible_xp"]
          IN  /\ Len(x) = Len(t) + Len(b) + Len(a)
              /\ \A i \in 1..Len(x) :
                   IF i <= Len(t) THEN x[i] = t[i] /\ x[i].src = "towers"
                   ELSE IF i <= Len(t) + Len(b)
                   THEN x[i] = b[i - Len(t)] /\ x[i].src = "big_towers"
                   ELSE x[i] = a[i - Len(t) - Len(b)] /\ x[i].src = "armories"]_vars

\* A tower of DeSalle has been hidden, over a cache with 4 towers, a watch
\* tower and an armory on Stillwater Bayou.
C19_Witness ==
  /\ ev.op = "tick" /\ ev.hid # NoHover /\ prof = MAPS[2]
  /\ Len(cache[MAPS[1]]["towers"]) = 4
  /\ Len(cache[MAPS[1]]["big_towers"]) = 1
  /\ Len(cache[MAPS[1]]["possible_xp"]) = 6

(***************************************************************************)
(* SpecBuild: sessions over POI data with malformed items                  *)
(***************************************************************************)
\* Values of an item's "c" that are no pair of numbers: the numbers 7 and 0,
\* true and false, null, a string, a list of one number.
BadCoords ==
  {JNum(7, 1), JNum(0, 1), JBool(TRUE), JBool(FALSE), JNull, JStr("north"),
   JList(<<Coord(5, 0)>>)}

\* POI data of one map: three towers, the second with "c": c.
BadData(c) ==
  JList(<<JDict([n |-> JStr(MAPS[1]),
                 towers |-> JList(<<Item(Coord(100, 0), Coord(200, 0)),
                                    JDict([c |-> c]),
                                    Item(Coord(1000, 0), Coord(1997, 0))>>)])>>)

BuildData == {GameData} \cup {BadData(c) : c \in BadCoords}

InitBuild ==
  \E g \in BuildData : StartedOn(VisibleFile, g) \/ ExitedOn(VisibleFile, g)

NextBuild ==
  \/ \E k \in ShapeKeys, p \in ShapePointers : ev.op # "fatal" /\ Tick(k, p)
  \/ \E name \in HoverMaps : ev.op # "fatal" /\ MapSel(name)

SpecBuild == InitBuild /\ [][NextBuild]_vars

\* C20: the build of the point cache raises on no POI data: startup ends with a
\* cache, whose points are those of the items with a pair of numbers for
\* coordinates, the other items skipped.
C20_BuildNeverRaises ==
  /\ ev.op # "fatal"
  /\ \A m \in MapNames, k \in Categories : \A i \in 1..Len(cache[m][k]) :
       LET c == cache[m][k][i].raw.v["c"]
       IN  IsList(c) /\ Len(c.v) >= 2 /\ c.v[1].t = "num" /\ c.v[2].t = "num"

(***************************************************************************)
(* SpecFormat: sessions over raw map data of every format                  *)
(***************************************************************************)
\* One tower of Stillwater Bayou, as the list of a category.
OneTower == JList(<<Item(Coord(100, 0), Coord(200, 0))>>)

\* data.json as it may be found: a first entry with "i" and "r", with "i" and
\* "a", with "i" alone, with "r" alone, with "n", with "i" and "n", with "i",
\* "r" and "n"; a number before a good block; an empty list; a dict; null.
FormatData ==
  {GameData,
   JList(<<JDict([i |-> JNum(0, 1), r |-> JDict([towers |-> OneTower])])>>),
   JList(<<JDict([i |-> JNum(0, 1), a |-> JList(<<>>)])>>),
   JList(<<JDict([i |-> JNum(0, 1)])>>),
   JList(<<JDict([r |-> JDict([towers |-> OneTower])])>>),
   JList(<<JDict([i |-> JNum(0, 1), n |-> JStr(MAPS[1]), towers |-> OneTower])>>),
   JList(<<JDict([i |-> JNum(0, 1), r |-> JDict([armories |-> OneTower]),
                  n |-> JStr(MAPS[1]), towers |-> OneTower])>>),
   JList(<<JNum(7, 1), Block1>>),
   JList(<<Block2, JDict([i |-> JNum(0, 1), r |-> JDict([towers |-> OneTower])])>>),
   JList(<<>>),
   Block1,
   JNull}

InitFormat ==
  \E g \in FormatData : StartedOn(VisibleFile, g) \/ ExitedOn(VisibleFile, g)

\* An exited program takes no step.
NextFormat ==
  \/ \E k \in ShapeKeys, p \in ShapePointers : ev.op # "fatal" /\ Tick(k, p)
  \/ \E name \in HoverMaps : ev.op # "fatal" /\ MapSel(name)

SpecFormat == InitFormat /\ [][NextFormat]_vars

\* C21: the format of the raw data is read off the first entry of a non-empty
\* list: "indexed_r" iff it is a record with "i" and with "r" or "a", otherwise
\* "named" iff it is a record with "n", otherwise "unknown", as for an empty
\* list and for a value that is no list.  Startup on data of unknown format
\* exits with no Overlay field assigned and config.json as it was; a session
\* that runs has the cache of data whose format is known.
C21_FormatOfFirstEntry ==
  LET Indexed(a) == IsDict(a) /\ Has(a, "i") /\ (Has(a, "r") \/ Has(a, "a"))
      Named(a)   == IsDict(a) /\ Has(a, "n")
      Claimed(g) == IF ~IsList(g) \/ Len(g.v) = 0 THEN "unknown"
                    ELSE IF Indexed(g.v[1]) THEN "indexed_r"
                    ELSE IF Named(g.v[1]) THEN "named"
                    ELSE "unknown"
  IN  /\ \A g \in FormatData :
           /\ detect_data_format(g) = Claimed(g)
           /\ Claimed(g) = "unknown" <=> StartupRaises(VisibleFile, g)
      /\ ev.op = "fatal" =>
           /\ cache = NoOverlay /\ data = NoOverlay /\ hidden_sets = NoOverlay
           /\ types = NoOverlay /\ prof = NoOverlay /\ visible = NoOverlay
           /\ disk = VisibleFile
      /\ ev.op # "fatal" =>
           \E g \in FormatData :
              /\ Claimed(g) # "unknown"
              /\ cache = _rebuild_all_caches(g, Claimed(g))

\* Startup on data of unknown format has exited, or a session runs on the cache
\* of indexed data whose first entry also has "n".
C21_Witness ==
  \/ ev.op = "fatal" /\ cache = NoOverlay
  \/ /\ ev.op = "tick"
     /\ Len(cache[MAPS[1]]["armories"]) = 1
     /\ Len(cache[MAPS[1]]["towers"]) = 0

(***************************************************************************)
(* SpecTransform: sessions over points at and beyond the map's corners     *)
(***************************************************************************)
\* Map coordinates of the towers of CornerData: the four corners, a cell
\* inside, a cell a fraction off the grid, and four positions outside 0..4095.
CornerCoords ==
  <<<<Coord(0, 0), Coord(0, 0)>>,
    <<Coord(GridMax, 0), Coord(GridMax, 0)>>,
    <<Coord(0, 0), Coord(GridMax, 0)>>,
    <<Coord(GridMax, 0), Coord(0, 0)>>,
    <<Coord(1000, 0), Coord(2000, 0)>>,
    <<Coord(100, 1), Coord(200, CoordDen - 1)>>,
    <<Coord(0 - 5, 0), Coord(5000, 0)>>,
    <<Coord(GridMax + 1, 0), Coord(0 - 1, 0)>>,
    <<Coord(2000, 0), Coord(0 - 3, 1)>>,
    <<Coord(GridMax, 1), Coord(GridMax, 1)>>>>

CornerData ==
  JList(<<JDict([n |-> JStr(MAPS[1]),
                 towers |-> JList([i \in 1..Len(CornerCoords) |->
                                     Item(CornerCoords[i][1], CornerCoords[i][2])])])>>)

\* The pointer on the corner cells, on a cell inside and on the edge where
\* the tower at (-5, 5000) is drawn.
CornerPointers ==
  {Over(0, 0), Over(GridMax, GridMax), Over(1000, 2000), Over(0, GridMax)}

\* The key states of a tick of SpecTransform: nothing, Tab, the key 2, the
\* backtick.
TransformKeys ==
  {NoKeys,
   KeyState(FALSE, FALSE, TRUE, {}, ChordNone),
   KeyState(FALSE, FALSE, FALSE, {2}, ChordNone),
   KeyState(TRUE, FALSE, FALSE, {}, ChordNone)}

InitTransform == StartedOn(VisibleFile, CornerData)

NextTransform ==
  \/ \E k \in TransformKeys, p \in CornerPointers : Tick(k, p)
  \/ \E name \in HoverMaps : MapSel(name)

SpecTransform == InitTransform /\ [][NextTransform]_vars

\* C22: every cached point has (u, v) = (clamp(y / 4095), clamp((4095 - x) /
\* 4095)) for the x and y of its item, each clamped to [0, 1] on its own: a
\* point of the grid lies in the unit square, (0, 0) is at (0, 1), (4095, 4095)
\* at (1, 0), and a coordinate outside 0..4095 gives the nearest bound; no item
\* is rejected for its coordinates.
C22_RotatedAndClamped ==
  LET Unit(q) ==    \* clamp(q / 4095) as a multiple of 1 / UnitDen, q = <<n, d>>
        IF q[1] < 0 THEN <<0, 1>>
        ELSE IF q[1] > GridMax * q[2] THEN <<UnitDen, 1>>
        ELSE <<q[1] * CoordDen, q[2]>>
      Same(n, q) == n * q[2] = q[1]
      pts == cache[MAPS[1]]["towers"]
  IN  /\ Len(pts) = Len(CornerCoords)
      /\ \A i \in 1..Len(pts) :
           LET x == pts[i].raw.v["c"].v[1].v
               y == pts[i].raw.v["c"].v[2].v
           IN  /\ pts[i].raw = Item(CornerCoords[i][1], CornerCoords[i][2])
               /\ Same(pts[i].u, Unit(y))
               /\ Same(pts[i].v, Unit(<<GridMax * x[2] - x[1], x[2]>>))
               /\ pts[i].u \in 0..UnitDen
               /\ pts[i].v \in 0..UnitDen
      /\ <<pts[1].u, pts[1].v>> = <<0, UnitDen>>
      /\ <<pts[2].u, pts[2].v>> = <<UnitDen, 0>>
      /\ <<pts[7].u, pts[7].v>> = <<UnitDen, UnitDen>>
      /\ <<pts[8].u, pts[8].v>> = <<0, 0>>

\* The pointer is on the corner of the rectangle where the tower at
\* (-5, 5000) is drawn, and that tower is the hover result.
C22_Witness ==
  /\ ev.op = "tick"
  /\ hover # NoHover
  /\ hover.pt_ref.raw = Item(Coord(0 - 5, 0), Coord(5000, 0))
  /\ ev.ptr = Over(0, GridMax)

(***************************************************************************)
(* SpecSwitch: sessions of map switching, by the keys 1-4 and by the panel *)
(***************************************************************************)
\* The number keys held in a tick of SpecSwitch.
SwitchHolds == {{}, {1}, {2}, {2, 3}, {1, 4}, {3, 4}}

\* The key states of a tick of SpecSwitch: number keys with or without Tab,
\* and the backtick.
SwitchKeys ==
  {KeyState(FALSE, FALSE, tab, nums, ChordNone) : tab \in BOOLEAN, nums \in SwitchHolds}
  \cup {KeyState(TRUE, FALSE, FALSE, {2}, ChordNone)}

\* What the panel's combo box, or any caller of switch, may pass.
SwitchNames == MapNames \cup {"Atlantis"}

InitSwitch == \E file \in {NoFile, VisibleFile} : Started(file)

NextSwitch ==
  \/ \E k \in SwitchKeys : Tick(k, Away)
  \/ \E v \in BOOLEAN : NumSwitch(v)
  \/ \E name \in SwitchNames : MapSel(name)

SpecSwitch == InitSwitch /\ [][NextSwitch]_vars

\* C23: switch(name) with the selected map, or with a name that is none of the
\* four maps, changes no field and writes nothing; a tick with one number key
\* held, after a tick with that key held in which master was on, the overlay
\* visible and number switching enabled, finds the key's map selected and
\* changes nothing; a tick that runs switch's body changes the selected map.
C23_SwitchIsIdempotent ==
  [][LET Kept  == UNCHANGED <<num_sw, prof, visible, master, global_scale, types,
                              hidden_sets, rect, pbt, pH, pT, pHide, cache, data,
                              disk, fs>>
         Alone(k, n) == k = [bt |-> FALSE, h |-> FALSE, tab |-> FALSE,
                             chord |-> FALSE, nums |-> {n}]
     IN  /\ \A name \in SwitchNames :
              ((name = prof \/ name \notin MapNames) /\ MapSel(name)) =>
                 /\ Kept
                 /\ hover' = hover
                 /\ ev'.fired = {}
                 /\ ev'.saves = 0
         /\ \A n \in 1..4 :
              (/\ ev.op = "tick" /\ Alone(ev.polled, n)
               /\ master /\ visible /\ num_sw
               /\ ev'.op = "tick" /\ Alone(ev'.polled, n)) =>
                 /\ prof = MAPS[n]
                 /\ Kept
                 /\ ev'.fired = {}
                 /\ ev'.saves = 0
                 /\ (ev'.ptr = ev.ptr) => hover' = hover
         /\ (ev'.op = "tick" /\ "switch" \in ev'.fired) => prof' # prof]_vars

\* A tick of a hold of the key 2 that found DeSalle selected did nothing.
C23_Witness ==
  /\ ev.op = "tick"
  /\ ev.polled = [bt |-> FALSE, h |-> FALSE, tab |-> FALSE, chord |-> FALSE, nums |-> {2}]
  /\ master /\ visible /\ num_sw
  /\ ev.was.visible
  /\ prof = MAPS[2]
  /\ ev.fired = {}

\* C28: a tick runs switch's body only with master on, the overlay visible and
\* number switching enabled when the keys are looked at; in such a tick with
\* keys held, the map selected after it is the map of the lowest held key; a
\* tick changes the selected map at most once, with one save for the change.
C28_LowestHeldKeySwitches ==
  [][ev'.op = "tick" =>
       LET held   == ev'.polled.nums
           lowest == CHOOSE n \in held : \A m \in held : n <= m
           tabbed == "tab" \in ev'.fired
           toggled == "master" \in ev'.fired
       IN  /\ ("switch" \in ev'.fired) => (master' /\ visible' /\ num_sw')
           /\ (master' /\ visible' /\ num_sw' /\ held # {}) => prof' = MAPS[lowest]
           /\ (held = {} \/ ~(master' /\ visible' /\ num_sw')) => prof' = prof
           /\ ("switch" \in ev'.fired) <=> (prof' # prof)
           /\ ev'.saves = (IF "switch" \in ev'.fired THEN 1 ELSE 0)
                          + (IF tabbed THEN 1 ELSE 0) + (IF toggled THEN 1 ELSE 0)
           /\ (prof' # prof) => Get(Settings(disk'), "selected_map", JNull) = JStr(prof')]_vars

\* A tick with the keys 2 and 3 held switched to DeSalle.
C28_Witness ==
  /\ ev.op = "tick"
  /\ ev.polled.nums = {2, 3}
  /\ "switch" \in ev.fired
  /\ prof = MAPS[2]

(***************************************************************************)
(* Claims about the fields master and visible                              *)
(***************************************************************************)
\* C24: in every state of a session, from startup on, the overlay is visible
\* only if master is on.
C24_VisibleOnlyWithMaster == visible = TRUE => master = TRUE

(***************************************************************************)
(* Claims about what the chord hides                                       *)
(***************************************************************************)
\* C25: a tick adds an identity to a hidden set only when the overlay is
\* visible at its hover step, so that the hover result it hides is the one the
\* same tick computed, for the selected map.
C25_ChordHidesFreshHover ==
  [][(ev'.op = "tick" /\ ev'.hid # NoHover) =>
       /\ visible'
       /\ ev'.hid.map = prof']_vars

(***************************************************************************)
(* SpecTwin: the chord over points that are in possible_xp as well         *)
(***************************************************************************)
\* settings["hidden"] of the configuration files of SpecTwin.
TwinHidden ==
  {EmptyDict,
   JDict([towers |-> JList(<<Id(1000, 1997), Id(1000, 2003)>>)])}

TwinKeys == {NoKeys, KeyState(FALSE, FALSE, FALSE, {}, ChordAll)}

TwinPointers == {BetweenTowers, OnTower}

TwinToggles == {"possible_xp", "towers"}

InitTwin == \E h \in TwinHidden : Started(HoverFile(h))

NextTwin ==
  \/ \E k \in TwinKeys, p \in TwinPointers : Tick(k, p)
  \/ \E tkey \in TwinToggles, enabled \in BOOLEAN : TypeToggle(tkey, enabled)

SpecTwin == InitTwin /\ [][NextTwin]_vars

\* C26: in a tick that scans with the pointer within the radius of a tower,
\* big tower or armory whose category is enabled and in which it is not hidden,
\* the hover result is of a source category, never of possible_xp; the chord
\* then hides the point in the source category only; and on the following
\* tick, the pointer unmoved, with possible_xp enabled the hover result is that
\* point as a member of possible_xp.
C26_SourceCategoryWins ==
  [][ev'.op = "tick" =>
       LET srcs  == {union_sources[i] : i \in 1..Len(union_sources)}
           on(t) == Truthy(Get(Get(types', t, EmptyDict), "enabled", JBool(TRUE)))
           pts(t) == cache'[prof'][t]
           d2(pt) == Dist2(rect', ev'.ptr, pt)
           near  == {c \in UNION {{<<t, i>> : i \in 1..Len(pts(t))} : t \in srcs} :
                       /\ on(c[1])
                       /\ JText(_hidden_key(c[1], pts(c[1])[c[2]])) \notin hidden_sets[c[1]]
                       /\ d2(pts(c[1])[c[2]]) <= Radius2}
           res   == IF ev'.hid # NoHover THEN ev'.hid ELSE hover'
       IN  /\ (master' /\ visible' /\ near # {}) =>
                (res # NoHover /\ res.type \in srcs)
           /\ (ev'.hid # NoHover /\ ev'.hid.type \in srcs) =>
                \A c \in Categories \ {ev'.hid.type} : hidden_sets'[c] = hidden_sets[c]
           /\ (/\ ev.op = "tick" /\ ev.hid # NoHover /\ ev.hid.type \in srcs
               /\ master /\ visible /\ master' /\ visible'
               /\ prof' = prof /\ ev'.ptr = ev.ptr
               /\ on("possible_xp")) =>
                /\ hover' # NoHover
                /\ hover'.type = "possible_xp"
                /\ hover'.pt_ref = ev.hid.pt_ref]_vars

\* C26 as amended: the hover result is never a member of possible_xp whose
\* source category is enabled and in which it is not hidden; the chord on a
\* result of a source category hides the point in that category only; and on
\* the following tick, the overlay visible on the same map and the pointer
\* unmoved, with possible_xp enabled and the point not hidden in possible_xp,
\* the hover result is at the squared distance of the hidden point, and it is
\* that point as a member of possible_xp exactly when no candidate at that
\* distance comes later in the scan.
C26_TwinYieldsToItsSource ==
  [][ev'.op = "tick" =>
       LET srcs  == {union_sources[i] : i \in 1..Len(union_sources)}
           on(t) == Truthy(Get(Get(types', t, EmptyDict), "enabled", JBool(TRUE)))
           pts(t) == cache'[prof'][t]
           d2(pt) == Dist2(rect', ev'.ptr, pt)
           free(t, pt) == JText(_hidden_key(t, pt)) \notin hidden_sets[t]
           res   == IF ev'.hid # NoHover THEN ev'.hid ELSE hover'
           xp    == pts("possible_xp")
           later == {c \in UNION {{<<t, i>> : i \in 1..Len(pts(t))} : t \in Categories} :
                       /\ on(c[1])
                       /\ free(c[1], pts(c[1])[c[2]])
                       /\ d2(pts(c[1])[c[2]]) = d2(ev.hid.pt_ref)
                       /\ \/ c[1] # "possible_xp"
                          \/ \E i \in 1..(c[2] - 1) : xp[i] = ev.hid.pt_ref}
       IN  /\ (master' /\ visible' /\ res # NoHover /\ res.type = "possible_xp") =>
                ~(on(res.pt_ref.src) /\ free(res.pt_ref.src, res.pt_ref))
           /\ (ev'.hid # NoHover /\ ev'.hid.type \in srcs) =>
                \A c \in Categories \ {ev'.hid.type} : hidden_sets'[c] = hidden_sets[c]
           /\ (/\ ev.op = "tick" /\ ev.hid # NoHover /\ ev.hid.type \in srcs
               /\ master /\ visible /\ master' /\ visible'
               /\ prof' = prof /\ ev'.ptr = ev.ptr
               /\ on("possible_xp") /\ free("possible_xp", ev.hid.pt_ref)) =>
                /\ hover' # NoHover
                /\ d2(hover'.pt_ref) = d2(ev.hid.pt_ref)
                /\ (hover'.type = "possible_xp" /\ hover'.pt_ref = ev.hid.pt_ref)
                     <=> (later = {})]_vars

\* The tick after the chord hid a tower in towers: the hover result is that
\* tower as a member of possible_xp.
C26_Witness ==
  /\ ev.op = "tick"
  /\ ev.hid = NoHover
  /\ ev.polled.chord
  /\ hover # NoHover
  /\ hover.type = "possible_xp"
  /\ hover.pt_ref.src = "towers"
  /\ Enabled(Self, "towers")
  /\ JText(_hidden_key("towers", hover.pt_ref)) \in hidden_sets["towers"]
  /\ JText(_hidden_key("possible_xp", hover.pt_ref)) \notin hidden_sets["possible_xp"]

\* C27: a tick whose chord hides a point with map A selected leaves, for every
\* other map B and every category, the set of points of B's cache that are
\* reported hidden as it was.
C27_HidingStaysOnItsMap ==
  [][(ev'.op = "tick" /\ ev'.hid # NoHover) =>
       \A B \in MapNames \ {ev'.hid.map}, c \in Categories :
          \A i \in 1..Len(cache[B][c]) :
             (JText(_hidden_key(c, cache[B][c][i])) \in hidden_sets'[c])
               <=> (JText(_hidden_key(c, cache[B][c][i])) \in hidden_sets[c])]_vars

(***************************************************************************)
(* SpecChord: the chord in sessions in which the overlay is shown and      *)
(* hidden, the map changed and a category switched on and off              *)
(***************************************************************************)
\* The key states of a tick of SpecChord: nothing, the chord, Tab, both.
ChordKeys ==
  {KeyState(FALSE, FALSE, tab, {}, ch) : tab \in BOOLEAN, ch \in {ChordNone, ChordAll}}

InitChord == Started(VisibleFile)

NextChord ==
  \/ \E k \in ChordKeys, p \in OpsPointers : Tick(k, p)
  \/ \E tkey \in OpsToggles, enabled \in BOOLEAN : TypeToggle(tkey, enabled)
  \/ \E name \in OpsMaps : MapSel(name)

SpecChord == InitChord /\ [][NextChord]_vars

\* C29: a tick whose chord hides adds one identity, that of the result it
\* hides, to the hidden set of one category, the result's, and ends with no
\* hover result; no step removes an identity from a hidden set; and after every
\* step the hover result, if there is one, has an identity that is not in the
\* hidden set of its category: a point hidden in a category is never again the
\* hover result in that category.
C29_HiddenNeverHoveredAgain ==
  [][/\ (ev'.op = "tick" /\ ev'.hid # NoHover) =>
          /\ hidden_sets' =
               [hidden_sets EXCEPT ![ev'.hid.type] =
                  @ \cup {JText(_hidden_key(ev'.hid.type, ev'.hid.pt_ref))}]
          /\ Cardinality(hidden_sets'[ev'.hid.type])
               = Cardinality(hidden_sets[ev'.hid.type]) + 1
          /\ hover' = NoHover
     /\ \A c \in Categories : hidden_sets[c] \subseteq hidden_sets'[c]
     /\ hover' # NoHover =>
          JText(_hidden_key(hover'.type, hover'.pt_ref)) \notin hidden_sets'[hover'.type]]_vars

\* A tower hidden in towers is the hover result as a member of possible_xp,
\* with towers enabled.
C29_Witness ==
  /\ ev.op = "tick"
  /\ hover # NoHover
  /\ hover.type = "possible_xp"
  /\ hover.pt_ref.src = "towers"
  /\ Truthy(Get(Get(types, "towers", EmptyDict), "enabled", JBool(TRUE)))
  /\ \E id \in hidden_sets["towers"] : id = JText(_hidden_key("towers", hover.pt_ref))

====
